---- MODULE Spec2Model ----
(***************************************************************************)
(* Model of MDXtract: OPM (4-operator) to DX7 (6-operator) voice           *)
(* conversion, DX7 "32 voice BULK data" sysex serialisation, the batching  *)
(* loop of the command line tools, and the two ADPCM decoders.             *)
(*                                                                         *)
(* Python values are modelled as follows: a bytearray / bytes / list is a  *)
(* sequence (index i in Python is index i+1 here), a str is the sequence   *)
(* of its code points, a namedtuple is a record with the same field names, *)
(* and a call that can raise returns a record [ok, ...] whose ok field is  *)
(* FALSE when the Python call raises.                                      *)
(***************************************************************************)
EXTENDS Integers, Naturals, Sequences, FiniteSets, TLC

VARIABLES pc, tool, basepath, basename, voice_data, opmvoices, batch,
          given, dx7voices, outfiles, opmv, dx7v, packed, syx,
          data, nib, signal, step, decoded,
          parser, indata, argtype, exttype, parsed,
          infiles, fileno, outcome, written, errors,
          pcmdata, gain, fix_dc_offset, sample_rate, adjusted, wavfile,
          remap_args, remapped, pdxtract_out, pdx2wav_out

vars == <<pc, tool, basepath, basename, voice_data, opmvoices, batch,
          given, dx7voices, outfiles, opmv, dx7v, packed, syx,
          data, nib, signal, step, decoded,
          parser, indata, argtype, exttype, parsed,
          infiles, fileno, outcome, written, errors,
          pcmdata, gain, fix_dc_offset, sample_rate, adjusted, wavfile,
          remap_args, remapped, pdxtract_out, pdx2wav_out>>

toolVars  == <<tool, basepath, basename, voice_data, opmvoices, batch, outfiles>>
voiceVars == <<opmv, dx7v, packed>>
sysexVars == <<given, dx7voices, syx>>
codecVars == <<data, nib, signal, step, decoded>>
parseVars == <<parser, indata, argtype, exttype, parsed>>
batchVars == <<infiles, fileno, outcome, written, errors>>
utilVars  == <<pcmdata, gain, fix_dc_offset, sample_rate, adjusted, wavfile,
               remap_args, remapped>>
equivVars == <<pdxtract_out, pdx2wav_out>>

\* ------------------------------------------------------------------------
\* Bounds of the model

MaxVoices == 65       \* most instrument records in one song file
MaxList   == 33       \* longest voice list handed to sysex_from_DX7Voices
MaxYMRun  == 5        \* longest run of one byte fed to the DELTA-T decoder
MaxOKIRun == 10       \* longest run of one byte fed to the MSM6258V decoder
MaxTail   == 2        \* most bytes that follow the run in a decoder input

\* ------------------------------------------------------------------------
\* Python integer and sequence primitives

RECURSIVE BitAnd(_, _)
\* a & b on non-negative integers
BitAnd(a, b) ==
    IF a = 0 \/ b = 0 THEN 0
    ELSE (a % 2) * (b % 2) + 2 * BitAnd(a \div 2, b \div 2)

\* a | b on non-negative integers
BitOr(a, b) == a + b - BitAnd(a, b)

RECURSIVE Pow2(_)
Pow2(n) == IF n = 0 THEN 1 ELSE 2 * Pow2(n - 1)

\* a << n and a >> n on non-negative integers
Shl(a, n) == a * Pow2(n)
Shr(a, n) == a \div Pow2(n)

Min(a, b) == IF a < b THEN a ELSE b
Max(a, b) == IF a > b THEN a ELSE b

\* int(x / d) for the float quotient x / d, d > 0: truncation toward zero
TruncDiv(x, d) == IF x >= 0 THEN x \div d ELSE -((-x) \div d)

\* s[:n]
Take(s, n) == SubSeq(s, 1, Min(n, Len(s)))

\* s[a:b] for 0 <= a
Slice(s, a, b) == SubSeq(s, a + 1, Min(b, Len(s)))

\* s.ljust(n): pad with spaces on the right up to n characters
ljust(s, n) == s \o [k \in 1..(n - Len(s)) |-> 32]

RECURSIVE SumRange(_, _, _)
\* s[lo] + ... + s[hi], added up by halves
SumRange(s, lo, hi) ==
    IF lo > hi THEN 0
    ELSE IF lo = hi THEN s[lo]
    ELSE LET mid == (lo + hi) \div 2
         IN  SumRange(s, lo, mid) + SumRange(s, mid + 1, hi)

\* sum(data)
SumSeq(s) == SumRange(s, 1, Len(s))

RECURSIVE Concat(_)
\* concatenation of a sequence of sequences (repeated bytearray.extend)
Concat(ss) == IF Len(ss) = 0 THEN <<>> ELSE Head(ss) \o Concat(Tail(ss))

\* ------------------------------------------------------------------------
\* util.py

\* clip_int(value, min_value, max_value) for value = num / den, den > 0:
\* int(max(min_value, min(value, max_value)))
clip_int(num, den, min_value, max_value) ==
    IF num > max_value * den THEN max_value
    ELSE IF num < min_value * den THEN min_value
    ELSE TruncDiv(num, den)

\* clip_int16(value) for value = num / den, den > 0:
\* int(max(-32768, min(value, 32767)))
clip_int16(num, den) ==
    IF num > 32767 * den THEN 32767
    ELSE IF num < (-32768) * den THEN -32768
    ELSE TruncDiv(num, den)

\* nibbles(data, big_endian): the sequence the generator yields
nibbles(bytes, big_endian) ==
    LET shift == IF big_endian THEN <<4, 0>> ELSE <<0, 4>>
    IN  [k \in 1..(2 * Len(bytes)) |->
            BitAnd(Shr(bytes[(k + 1) \div 2], shift[((k - 1) % 2) + 1]), 15)]

\* round() of the exact quotient num / den (den > 0, num >= 0): half to even
RoundDiv(num, den) ==
    LET q == num \div den
        r == num % den
    IN  IF 2 * r < den THEN q
        ELSE IF 2 * r > den THEN q + 1
        ELSE IF q % 2 = 0 THEN q ELSE q + 1

\* remap(n, r1, r2) as the pair <<numerator, denominator>> of the returned
\* quotient, with ok = FALSE when r1 is degenerate (ZeroDivisionError)
remap(n, r1, r2) ==
    LET r1_min == Min(r1[1], r1[2])
        r1_max == Max(r1[1], r1[2])
        r2_min == Min(r2[1], r2[2])
        r2_max == Max(r2[1], r2[2])
        r1_reverse == r1_min # r1[1]
        r2_reverse == r2_min # r2[1]
        den == r1_max - r1_min
        offnum == IF r1_reverse THEN (r1_max - n) * (r2_max - r2_min)
                                ELSE (n - r1_min) * (r2_max - r2_min)
    IN  IF den = 0 THEN [ok |-> FALSE, num |-> 0, den |-> 0]
        ELSE [ok |-> TRUE,
              num |-> IF r2_reverse THEN r2_max * den - offnum
                                    ELSE r2_min * den + offnum,
              den |-> den]

int_remap(n, r1, r2) ==
    LET q == remap(n, r1, r2)
    IN  IF q.ok THEN [ok |-> TRUE, value |-> RoundDiv(q.num, q.den)]
        ELSE [ok |-> FALSE, value |-> 0]

\* ------------------------------------------------------------------------
\* common.py: OPM -> DX7 voice conversion

D1L_lut == <<99, 93, 89, 84, 80, 75, 71, 66, 62, 57, 53, 48, 44, 39, 35, 0>>

AR_lut == <<0, 15, 18, 21, 24, 27, 31, 34, 37, 40, 44, 47, 51, 54, 57, 60,
            64, 67, 71, 74, 77, 80, 83, 85, 87, 89, 91, 93, 95, 96, 98, 99>>

DR_lut == <<0, 10, 13, 16, 19, 21, 24, 27, 30, 33, 36, 39, 42, 45, 48, 51,
            54, 57, 60, 63, 66, 69, 72, 75, 78, 81, 84, 87, 90, 93, 96, 99>>

RR_lut == <<0, 21, 27, 32, 38, 43, 49, 54, 60, 65, 71, 76, 82, 87, 94, 99>>

DET_lut == <<7, 8, 9, 10, 7, 6, 5, 4>>

AMS_lut == <<0, 2, 3, 3>>

FF_lut == <<0, 41, 57, 73>>

OL_lut_typo ==
    <<98, 97, 96, 95, 94, 93, 92, 91, 90, 89, 88, 87, 86, 85, 84, 83,
      82, 81, 80, 79, 78, 77, 76, 75, 74, 73, 72, 71, 70, 69, 68, 67,
      66, 65, 64, 63, 62, 61, 60, 59, 58, 57, 56, 55, 54, 53, 52, 51,
      50, 49, 48, 47, 46, 45, 44, 43, 42, 41, 40, 39, 38, 37, 36, 35,
      34, 33, 32, 31, 30, 29, 28, 27, 26, 25, 24, 23, 22, 21, 20, 20,
      19, 18, 18, 17, 16, 15, 15, 14, 14, 13, 13, 12, 12, 11, 11, 10,
      10, 9, 9, 8, 8, 7, 7, 6, 6, 5, 5, 5, 4, 4, 4, 4,
      3, 3, 3, 3, 2, 2, 2, 2, 1, 1, 1, 1, 0, 0, 1, 0>>

OL_lut ==
    <<98, 97, 96, 95, 94, 93, 92, 91, 90, 89, 88, 87, 86, 85, 84, 83,
      82, 81, 80, 79, 78, 77, 76, 75, 74, 73, 72, 71, 70, 69, 68, 67,
      66, 65, 64, 63, 62, 61, 60, 59, 58, 57, 56, 55, 54, 53, 52, 51,
      50, 49, 48, 47, 46, 45, 44, 43, 42, 41, 40, 39, 38, 37, 36, 35,
      34, 33, 32, 31, 30, 29, 28, 27, 26, 25, 24, 23, 22, 21, 20, 20,
      19, 18, 18, 17, 16, 15, 15, 14, 14, 13, 13, 12, 12, 11, 11, 10,
      10, 9, 9, 8, 8, 7, 7, 6, 6, 5, 5, 5, 4, 4, 4, 4,
      3, 3, 3, 3, 2, 2, 2, 2, 1, 1, 1, 1, 0, 0, 0, 0>>

\* index into the output-level table: max(min(op.TL + tl_adjustment, 127), 0)
OL_index(TL, adj) == Max(Min(TL + adj, 127), 0)

OPMOP_to_DX7OP(op, voice, adj) ==
    LET L2 == D1L_lut[op.D1L + 1]
        L3 == IF op.D2R # 0 THEN 0 ELSE L2
    IN  [R1  |-> AR_lut[op.AR + 1],
         R2  |-> DR_lut[op.D1R + 1],
         R3  |-> DR_lut[op.D2R + 1],
         R4  |-> RR_lut[op.RR + 1],
         L1  |-> 99,
         L2  |-> L2,
         L3  |-> L3,
         L4  |-> 0,
         BP  |-> 0,
         LD  |-> 0,
         RD  |-> 0,
         LC  |-> 0,
         RC  |-> 0,
         DET |-> DET_lut[op.DT1 + 1],
         RS  |-> 0,
         AMS |-> AMS_lut[voice.AMS + 1],
         KVS |-> 0,
         OL  |-> OL_lut[OL_index(op.TL, adj) + 1],
         M   |-> 0,
         FC  |-> op.MUL,
         FF  |-> FF_lut[op.DT2 + 1]]

default_DX7OP ==
    [R1 |-> 99, R2 |-> 99, R3 |-> 99, R4 |-> 99,
     L1 |-> 99, L2 |-> 99, L3 |-> 90, L4 |-> 0,
     BP |-> 36, LD |-> 0, RD |-> 0, LC |-> 0, RC |-> 0,
     DET |-> 7, RS |-> 0, AMS |-> 0, KVS |-> 0,
     OL |-> 99, M |-> 0, FC |-> 1, FF |-> 0]

\* "INIT VOICE"
INIT_VOICE_name == <<73, 78, 73, 84, 32, 86, 79, 73, 67, 69>>

default_DX7Voice ==
    [name |-> INIT_VOICE_name,
     PR1 |-> 50, PR2 |-> 50, PR3 |-> 50, PR4 |-> 50,
     PL1 |-> 50, PL2 |-> 50, PL3 |-> 50, PL4 |-> 50,
     ALG |-> 0, OKS |-> 1, FB |-> 0,
     LFS |-> 0, LFD |-> 0, LPMD |-> 0, LAMD |-> 0, LFKS |-> 0, LFW |-> 0,
     LPMS |-> 0,
     TRNP |-> 24,
     OPEN |-> 32,
     OP1 |-> default_DX7OP, OP2 |-> default_DX7OP, OP3 |-> default_DX7OP,
     OP4 |-> default_DX7OP, OP5 |-> default_DX7OP, OP6 |-> default_DX7OP]

algorithm_mapping == <<0, 13, 7, 6, 4, 21, 30, 31>>

tl_adjustment ==
    << <<-8, -8, -8, 0>>,
       <<-8, -8, -8, 0>>,
       <<-8, -8, -8, 0>>,
       <<-8, -8, -8, 0>>,
       <<-8, 0, 0, 0>>,
       <<-8, 0, 0, 0>>,
       <<-8, 0, 0, 0>>,
       <<0, 0, 0, 0>> >>

LFW_lut == <<2, 3, 0, 5>>

OPEN_mask_wide == 255

\* OPEN = 0x0F & opmv.SLOT
OPEN_mask == 15

rotated_CON_none == 8

\* if opmv.CON == 2: the algorithm whose operators are re-ordered
rotated_CON == 2

OPMVoice_to_DX7Voice(v) ==
    LET alg == algorithm_mapping[v.CON + 1]
        adj == tl_adjustment[v.CON + 1]
        c6  == OPMOP_to_DX7OP(v.OPM1, v, adj[1])
        c5  == OPMOP_to_DX7OP(v.OPC1, v, adj[2])
        c4  == OPMOP_to_DX7OP(v.OPM2, v, adj[3])
        c3  == OPMOP_to_DX7OP(v.OPC2, v, adj[4])
        \* if opmv.CON == 2: op4, op5, op6 = op6, op4, op5
        op4 == IF v.CON = rotated_CON THEN c6 ELSE c4
        op5 == IF v.CON = rotated_CON THEN c4 ELSE c5
        op6 == IF v.CON = rotated_CON THEN c5 ELSE c6
    IN  [name |-> Take(v.name, 10),
         PR1 |-> 50, PR2 |-> 50, PR3 |-> 50, PR4 |-> 50,
         PL1 |-> 50, PL2 |-> 50, PL3 |-> 50, PL4 |-> 50,
         ALG |-> alg,
         OKS |-> 0,
         FB  |-> v.FL,
         LFS |-> int_remap(v.LFRQ, <<0, 127>>, <<0, 99>>).value,
         LFD |-> 0,
         LPMD |-> int_remap(v.PMD, <<0, 127>>, <<0, 99>>).value,
         LAMD |-> int_remap(v.AMD, <<0, 127>>, <<0, 99>>).value,
         LFKS |-> 0,
         LFW |-> LFW_lut[v.WF + 1],
         LPMS |-> v.PMS,
         TRNP |-> 24,
         OPEN |-> BitAnd(OPEN_mask, v.SLOT),
         OP6 |-> op6, OP5 |-> op5, OP4 |-> op4, OP3 |-> c3,
         OP2 |-> default_DX7OP, OP1 |-> default_DX7OP]

\* ------------------------------------------------------------------------
\* common.py: DX7 "BULK data" packing

\* the 17 values appended for operator number i (0 = OP6 ... 5 = OP1),
\* before bit 7 is stripped
packed_DX7OP(v, op, i) ==
    <<op.R1, op.R2, op.R3, op.R4, op.L1, op.L2, op.L3, op.L4,
      op.BP, op.LD, op.RD,
      BitOr(BitAnd(Shl(op.RC, 2), 12), BitAnd(op.LC, 3)),
      BitOr(BitAnd(Shl(Min(op.DET, 14), 3), 120), BitAnd(op.RS, 7)),
      BitOr(BitAnd(Shl(op.KVS, 2), 28), BitAnd(op.AMS, 3)),
      IF BitAnd(v.OPEN, Shl(1, i)) # 0 THEN op.OL ELSE 0,
      BitOr(BitAnd(Shl(op.FC, 1), 62), BitAnd(op.M, 1)),
      op.FF>>

\* the values appended to the bytearray p, in order, before bit 7 is stripped
packed_raw(v) ==
    packed_DX7OP(v, v.OP6, 0) \o packed_DX7OP(v, v.OP5, 1) \o
    packed_DX7OP(v, v.OP4, 2) \o packed_DX7OP(v, v.OP3, 3) \o
    packed_DX7OP(v, v.OP2, 4) \o packed_DX7OP(v, v.OP1, 5) \o
    <<v.PR1, v.PR2, v.PR3, v.PR4, v.PL1, v.PL2, v.PL3, v.PL4, v.ALG>> \o
    <<BitOr(BitAnd(Shl(v.OKS, 4), 16), BitAnd(v.FB, 7))>> \o
    <<v.LFS, v.LFD, v.LPMD, v.LAMD>> \o
    <<BitOr(BitOr(BitAnd(Shl(v.LPMS, 4), 112), BitAnd(Shl(v.LFW, 1), 14)),
            BitAnd(v.LFKS, 1))>> \o
    <<BitAnd(v.TRNP, 31)>>

\* (v.name.ljust(10))[:10].encode("ascii"): raises on a code point >= 128
packed_name(v) ==
    LET n == Take(ljust(v.name, 10), 10)
    IN  [ok |-> \A k \in 1..Len(n) : n[k] < 128, bytes |-> n]

\* the mask applied to every byte of p by the final map()
strip_mask == 127

\* packed_DX7Voice(v): ok = FALSE when the call raises (a bytearray element
\* outside range(0, 256) is a ValueError, a non-ASCII name a
\* UnicodeEncodeError); otherwise bytes is the returned bytearray
packed_DX7Voice(v) ==
    LET raw == packed_raw(v)
        nm  == packed_name(v)
        p   == raw \o nm.bytes
    IN  IF (\E k \in 1..Len(raw) : raw[k] < 0 \/ raw[k] > 255) \/ ~nm.ok
        THEN [ok |-> FALSE, bytes |-> <<>>]
        ELSE [ok |-> TRUE,
              bytes |-> [k \in 1..Len(p) |-> BitAnd(p[k], strip_mask)]]

\* ------------------------------------------------------------------------
\* common.py: DX7 "32 voice BULK data" sysex message

sysex_header_short == <<240, 67, 0, 9, 32>>

sysex_header == <<240, 67, 0, 9, 32, 0>>

padded_front(dx7vs) == [k \in 1..(32 - Len(dx7vs)) |-> default_DX7Voice] \o dx7vs

\* the caller's list after the padding loop
\* for _ in range(len(dx7vs), 32): dx7vs.append(default_DX7Voice())
padded(dx7vs) == dx7vs \o [k \in 1..(32 - Len(dx7vs)) |-> default_DX7Voice]

\* ((~sum(data)) + 1) & 0x7F: the two's complement of the sum, low 7 bits
checksum_no_increment(bytes) == ((-SumSeq(bytes)) - 1) % 128

checksum(bytes) == (((-SumSeq(bytes)) - 1) + 1) % 128

\* sysex_from_DX7Voices(dx7vs): list is the argument as the call leaves it,
\* ok = FALSE when packing a voice raises, otherwise syx is the message
sysex_from_DX7Voices(dx7vs) ==
    LET list  == padded(dx7vs)
        first == Take(list, 32)
        pk    == [k \in 1..Len(first) |-> packed_DX7Voice(first[k])]
        bytes == Concat([k \in 1..Len(first) |-> pk[k].bytes])
    IN  IF \E k \in 1..Len(first) : ~pk[k].ok
        THEN [ok |-> FALSE, list |-> list, syx |-> <<>>]
        ELSE [ok |-> TRUE, list |-> list,
              syx |-> sysex_header \o bytes \o <<checksum(bytes)>> \o <<247>>]

\* ------------------------------------------------------------------------
\* Values of the variables a specification does not use

NoOPMOP == [TL |-> 0, AR |-> 0, D1R |-> 0, D1L |-> 0, D2R |-> 0, RR |-> 0,
            KS |-> 0, MUL |-> 0, DT1 |-> 0, DT2 |-> 0, AME |-> 0]

NoOPMVoice ==
    [name |-> <<>>, FL |-> 0, CON |-> 0, SLOT |-> 0, NE |-> 0, NFRQ |-> 0,
     AMS |-> 0, PMS |-> 0, LFRQ |-> 0, WF |-> 0, PMD |-> 0, AMD |-> 0,
     OPM1 |-> NoOPMOP, OPC1 |-> NoOPMOP, OPM2 |-> NoOPMOP, OPC2 |-> NoOPMOP]

NoPacked == [ok |-> FALSE, bytes |-> <<>>]

IdleTool ==
    /\ tool = "none" /\ basepath = <<>> /\ basename = <<>>
    /\ voice_data = <<>> /\ opmvoices = <<>> /\ batch = 0 /\ outfiles = <<>>

IdleVoice == opmv = NoOPMVoice /\ dx7v = default_DX7Voice /\ packed = NoPacked

IdleSysex == given = <<>> /\ dx7voices = <<>> /\ syx = <<>>

IdleCodec ==
    data = <<>> /\ nib = 0 /\ signal = 0 /\ step = 0 /\ decoded = <<>>

NoParsed == [status |-> "none"]

IdleParse ==
    /\ parser = "none" /\ indata = <<>> /\ argtype = "None" /\ exttype = "None"
    /\ parsed = NoParsed

IdleBatch ==
    /\ infiles = <<>> /\ fileno = 0 /\ outcome = <<>> /\ written = {}
    /\ errors = <<>>

NoResult == [status |-> "none"]

IdleUtil ==
    /\ pcmdata = <<>> /\ gain = <<1, 1>> /\ fix_dc_offset = FALSE
    /\ sample_rate = <<0, 0>> /\ adjusted = <<>> /\ wavfile = NoResult
    /\ remap_args = <<>> /\ remapped = NoResult

IdleEquiv == pdxtract_out = NoResult /\ pdx2wav_out = NoResult

\* ------------------------------------------------------------------------
\* SpecVoice: OPMVoice_to_DX7Voice and packed_DX7Voice applied to one voice

MaxTL == 255          \* largest total level of a source operator
MaxFieldValue == 256  \* largest value tried in one field of a target voice

\* operator enable masks (SLOT) of the source voices
SlotSet == {0, 5, 10, 15, 120, 255}

\* "AB", "ABCDEFGHIJKL", "MDX_1F~" followed by U+97F3
NameSet == {INIT_VOICE_name, <<65, 66>>,
            <<65, 66, 67, 68, 69, 70, 71, 72, 73, 74, 75, 76>>,
            <<77, 68, 88, 95, 49, 70, 126, 38899>>}

\* a source operator whose fields are spread over their bit widths by t
SourceOP(tl, t) ==
    [TL |-> tl, AR |-> t % 32, D1R |-> (t \div 2) % 32, D1L |-> (t \div 3) % 16,
     D2R |-> IF t % 3 = 0 THEN 0 ELSE (t \div 5) % 32, RR |-> (t \div 7) % 16,
     KS |-> t % 4, MUL |-> (t \div 4) % 16, DT1 |-> (t \div 8) % 8,
     DT2 |-> (t \div 16) % 4, AME |-> t % 2]

\* the character of hexadecimal digit d in upper case
HexChar(d) == IF d < 10 THEN 48 + d ELSE 55 + d

SourceVoice(con, t, slot) ==
    [name |-> <<86, 79, 73, 67, 69, 95, HexChar((t \div 16) % 16), HexChar(t % 16)>>,
     FL |-> t % 8, CON |-> con, SLOT |-> slot, NE |-> 0, NFRQ |-> 0,
     AMS |-> t % 4, PMS |-> (t \div 4) % 8, LFRQ |-> t % 128,
     WF |-> (t \div 2) % 4, PMD |-> (127 - t) % 128, AMD |-> (t * 5) % 128,
     OPM1 |-> SourceOP(t, t),
     OPC1 |-> SourceOP((MaxTL - t) % 256, t + 1),
     OPM2 |-> SourceOP((t + 100) % 256, t + 2),
     OPC2 |-> SourceOP((t * 3) % 256, t + 3)]

OPNames == {"OP1", "OP2", "OP3", "OP4", "OP5", "OP6"}

OPFields == {"R1", "R2", "R3", "R4", "L1", "L2", "L3", "L4", "BP", "LD", "RD",
             "LC", "RC", "DET", "RS", "AMS", "KVS", "OL", "M", "FC", "FF"}

VoiceFields == {"PR1", "PR2", "PR3", "PR4", "PL1", "PL2", "PL3", "PL4", "ALG",
                "OKS", "FB", "LFS", "LFD", "LPMD", "LAMD", "LFKS", "LFW",
                "LPMS", "TRNP", "OPEN"}

\* the target voices handed to packed_DX7Voice directly: the INIT voice
\* with every operator enabled and one field or the name replaced
RawBase == [default_DX7Voice EXCEPT !.OPEN = 63]

\* the values tried in a field: the small ones, the ends of the declared
\* ranges, and the first values a 7-bit and an 8-bit byte cannot hold
RawValues == (0..50) \cup {99, 127, 128, 255, MaxFieldValue}

RawVoices ==
    {[RawBase EXCEPT ![o][f] = x] : o \in OPNames, f \in OPFields,
                                    x \in RawValues}
    \cup {[RawBase EXCEPT ![f] = x] : f \in VoiceFields, x \in RawValues}
    \cup {[RawBase EXCEPT !.name = nm] : nm \in NameSet}

InitVoice ==
    /\ IdleTool /\ IdleSysex /\ IdleCodec /\ IdleParse /\ IdleBatch
    /\ IdleUtil /\ IdleEquiv
    /\ packed = NoPacked
    /\ \/ /\ pc = "opm"
          /\ \E con \in 0..7, t \in 0..MaxTL, slot \in SlotSet :
                opmv = SourceVoice(con, t, slot)
          /\ dx7v = default_DX7Voice
       \/ /\ pc = "raw"
          /\ opmv = NoOPMVoice
          /\ dx7v \in RawVoices

\* dx7voices.append(OPMVoice_to_DX7Voice(opmv)) for one voice
Convert ==
    /\ pc = "opm"
    /\ dx7v' = OPMVoice_to_DX7Voice(opmv)
    /\ pc' = "dx7"
    /\ UNCHANGED <<opmv, packed, toolVars, sysexVars, codecVars>>
    /\ UNCHANGED <<parseVars, batchVars, utilVars, equivVars>>

\* packed_DX7Voice(v) for one voice
Pack ==
    /\ pc \in {"dx7", "raw"}
    /\ packed' = packed_DX7Voice(dx7v)
    /\ pc' = IF pc = "dx7" THEN "packed" ELSE "rawpacked"
    /\ UNCHANGED <<opmv, dx7v, toolVars, sysexVars, codecVars>>
    /\ UNCHANGED <<parseVars, batchVars, utilVars, equivVars>>

NextVoice == Convert \/ Pack

SpecVoice == InitVoice /\ [][NextVoice]_vars

\* ------------------------------------------------------------------------
\* Properties of the voice conversion and of the packing (SpecVoice)

\* source operator of bias slot s (0..3): OPM1, OPC1, OPM2, OPC2
SlotOP(v, s) == IF s = 0 THEN v.OPM1 ELSE IF s = 1 THEN v.OPC1
                ELSE IF s = 2 THEN v.OPM2 ELSE v.OPC2

\* target operator that holds the conversion of bias slot s
SlotTarget(con, s) ==
    IF con = 2 THEN <<"OP4", "OP6", "OP5", "OP3">>[s + 1]
    ELSE <<"OP6", "OP5", "OP4", "OP3">>[s + 1]

\* the bias the claim states for algorithm con and slot s
StatedBias(con, s) ==
    IF con <= 3 THEN (IF s <= 2 THEN -8 ELSE 0)
    ELSE IF con <= 6 THEN (IF s = 0 THEN -8 ELSE 0)
    ELSE 0

\* output level the conversion gives slot s of the current source voice
\* when the slot's total level is tl
SlotOL(s, tl) ==
    OPMOP_to_DX7OP([SlotOP(opmv, s) EXCEPT !.TL = tl], opmv,
                   tl_adjustment[opmv.CON + 1][s + 1]).OL

Converted == pc \in {"dx7", "packed"}

\* C6: a converted voice has six operators, OP2 and OP1 are the default
\* operator, OPEN = SLOT & 0x0F has bits 4 and 5 clear, and the packed
\* output levels of OP2 and OP1 (record offsets 82 and 99) are 0
C6_UnusedOperatorsSilent ==
    Converted =>
        /\ OPNames \subseteq DOMAIN dx7v
        /\ dx7v.OP2 = default_DX7OP
        /\ dx7v.OP1 = default_DX7OP
        /\ dx7v.OPEN = opmv.SLOT % 16
        /\ (dx7v.OPEN \div 16) % 4 = 0
        /\ (pc = "packed" =>
               /\ packed.ok
               /\ packed.bytes[82 + 1] = 0
               /\ packed.bytes[99 + 1] = 0)

\* a source voice whose SLOT has every bit set has been converted and
\* packed: OP2 and OP1 carry output level 99 but are packed as 0
C6_Witness ==
    /\ pc = "packed"
    /\ opmv.SLOT = 255
    /\ dx7v.OP2.OL = 99
    /\ packed.ok
    /\ packed.bytes[82 + 1] = 0

\* C7: for every algorithm and slot, the output level of a total level
\* a in 0..127 is the table entry at clamp(a + bias, 0, 127), lies in
\* 0..99, and is >= the output level of every total level b in a..127
C7_OutputLevelMonotone ==
    Converted =>
        \A s \in 0..3 :
            LET a   == SlotOP(opmv, s).TL
                got == dx7v[SlotTarget(opmv.CON, s)].OL
            IN  a <= 127 =>
                   /\ got = OL_lut[Max(0, Min(127, a + StatedBias(opmv.CON, s))) + 1]
                   /\ got \in 0..99
                   /\ \A b \in a..127 : got >= SlotOL(s, b)

\* algorithm 2 with total level 3 on OPM1: the biased index is clamped
\* to 0 and the result, 98, is in OP4 after the rotation
C7_Witness ==
    /\ pc = "dx7"
    /\ opmv.CON = 2
    /\ opmv.OPM1.TL = 3
    /\ dx7v.OP4.OL = 98

\* C3: every packed voice record is produced (packing does not fail) and
\* each of its bytes is below 128, whatever the field values of the voice
C3_PackedSevenBitClean ==
    pc \in {"packed", "rawpacked"} =>
        /\ packed.ok
        /\ \A k \in 1..Len(packed.bytes) : packed.bytes[k] \in 0..127

\* the ranges the data model declares for the fields of a target operator
OPFieldMax ==
    [R1 |-> 99, R2 |-> 99, R3 |-> 99, R4 |-> 99,
     L1 |-> 99, L2 |-> 99, L3 |-> 99, L4 |-> 99,
     BP |-> 127, LD |-> 99, RD |-> 99, LC |-> 3, RC |-> 3,
     DET |-> 14, RS |-> 7, AMS |-> 3, KVS |-> 7,
     OL |-> 99, M |-> 1, FC |-> 31, FF |-> 99]

\* the ranges the data model declares for the fields of a target voice
VoiceFieldMax ==
    [PR1 |-> 99, PR2 |-> 99, PR3 |-> 99, PR4 |-> 99,
     PL1 |-> 99, PL2 |-> 99, PL3 |-> 99, PL4 |-> 99,
     ALG |-> 31, OKS |-> 1, FB |-> 7,
     LFS |-> 99, LFD |-> 99, LPMD |-> 99, LAMD |-> 99, LFKS |-> 1, LFW |-> 5,
     LPMS |-> 7, TRNP |-> 48, OPEN |-> 63]

\* v is a target voice of the data model
InRange(v) ==
    /\ \A f \in VoiceFields : v[f] \in 0..VoiceFieldMax[f]
    /\ \A o \in OPNames : \A f \in OPFields : v[o][f] \in 0..OPFieldMax[f]
    /\ Len(v.name) = 10
    /\ \A k \in 1..Len(v.name) : v.name[k] \in 32..126

\* the operator read back from operator position i of a 128-byte record
unpacked_DX7OP(p, i) ==
    LET b(k) == p[17 * i + k + 1]
    IN  [R1 |-> b(0), R2 |-> b(1), R3 |-> b(2), R4 |-> b(3),
         L1 |-> b(4), L2 |-> b(5), L3 |-> b(6), L4 |-> b(7),
         BP |-> b(8), LD |-> b(9), RD |-> b(10),
         RC |-> (b(11) \div 4) % 4, LC |-> b(11) % 4,
         DET |-> (b(12) \div 8) % 16, RS |-> b(12) % 8,
         KVS |-> (b(13) \div 4) % 8, AMS |-> b(13) % 4,
         OL |-> b(14),
         FC |-> (b(15) \div 2) % 32, M |-> b(15) % 2,
         FF |-> b(16)]

\* the voice read back from a 128-byte record; OPEN is not in the record
\* and is taken from the voice that was packed
unpacked_DX7Voice(p, open) ==
    [name |-> SubSeq(p, 119, 128),
     PR1 |-> p[103], PR2 |-> p[104], PR3 |-> p[105], PR4 |-> p[106],
     PL1 |-> p[107], PL2 |-> p[108], PL3 |-> p[109], PL4 |-> p[110],
     ALG |-> p[111],
     OKS |-> (p[112] \div 16) % 2, FB |-> p[112] % 8,
     LFS |-> p[113], LFD |-> p[114], LPMD |-> p[115], LAMD |-> p[116],
     LPMS |-> (p[117] \div 16) % 8, LFW |-> (p[117] \div 2) % 8,
     LFKS |-> p[117] % 2,
     TRNP |-> p[118],
     OPEN |-> open,
     OP6 |-> unpacked_DX7OP(p, 0), OP5 |-> unpacked_DX7OP(p, 1),
     OP4 |-> unpacked_DX7OP(p, 2), OP3 |-> unpacked_DX7OP(p, 3),
     OP2 |-> unpacked_DX7OP(p, 4), OP1 |-> unpacked_DX7OP(p, 5)]

\* operator position (bit of OPEN) of a target operator
OPPosition == [OP6 |-> 0, OP5 |-> 1, OP4 |-> 2, OP3 |-> 3, OP2 |-> 4, OP1 |-> 5]

OPEnabled(v, o) == (v.OPEN \div Pow2(OPPosition[o])) % 2 = 1

\* u agrees with v on every serialized field, the output level of the
\* operators disabled in v.OPEN excepted
SameSerialized(u, v) ==
    /\ u.name = v.name
    /\ \A f \in VoiceFields \ {"OPEN"} : u[f] = v[f]
    /\ \A o \in OPNames :
          \A f \in OPFields :
              (f = "OL" /\ ~OPEnabled(v, o)) \/ u[o][f] = v[o][f]

\* C8: unpacking the packed record of a voice whose fields are in their
\* declared ranges gives back every serialized field
C8_RoundTrip ==
    (pc = "rawpacked" /\ InRange(dx7v)) =>
        /\ packed.ok
        /\ Len(packed.bytes) = 128
        /\ SameSerialized(unpacked_DX7Voice(packed.bytes, dx7v.OPEN), dx7v)

\* ------------------------------------------------------------------------
\* SpecSysex: sysex_from_DX7Voices applied to one list of target voices

\* the k-th voice of the list drawn with seed: a converted source voice
\* whose algorithm, levels, enable mask and name vary with k
ListVoice(seed, k) ==
    OPMVoice_to_DX7Voice(
        SourceVoice((seed + k) % 8, (seed * 91 + k * 7) % 256,
                    <<15, 5, 255, 0, 10>>[((seed + k) % 5) + 1]))

InitSysex ==
    /\ IdleTool /\ IdleVoice /\ IdleCodec /\ IdleParse /\ IdleBatch
    /\ IdleUtil /\ IdleEquiv
    /\ pc = "call"
    /\ \E n \in 0..MaxList, seed \in 0..2 :
          given = [k \in 1..n |-> ListVoice(seed, k)]
    /\ dx7voices = given
    /\ syx = <<>>

\* syx = sysex_from_DX7Voices(dx7voices); the padding loop appends to the
\* caller's list
CallSysex ==
    /\ pc = "call"
    /\ LET r == sysex_from_DX7Voices(dx7voices)
       IN  /\ dx7voices' = r.list
           /\ syx' = r.syx
           /\ pc' = IF r.ok THEN "returned" ELSE "raised"
    /\ UNCHANGED <<given, toolVars, voiceVars, codecVars>>
    /\ UNCHANGED <<parseVars, batchVars, utilVars, equivVars>>

NextSysex == CallSysex

SpecSysex == InitSysex /\ [][NextSysex]_vars

\* data record r (0..31) of a sysex message
SyxRecord(msg, r) == SubSeq(msg, 6 + 128 * r + 1, 6 + 128 * (r + 1))

\* C1: the message is 4104 bytes: F0 43 00 09 20 00, 32 records of
\* 128 = 6 * 17 + 26 bytes, one checksum byte, F7
C1_SysexLayout ==
    pc = "returned" =>
        /\ Len(syx) = 4104
        /\ SubSeq(syx, 1, 6) = <<240, 67, 0, 9, 32, 0>>
        /\ \A r \in 0..31 :
              /\ r < Len(dx7voices)
              /\ SyxRecord(syx, r) = packed_DX7Voice(dx7voices[r + 1]).bytes
              /\ Len(packed_DX7Voice(dx7voices[r + 1]).bytes) = 6 * 17 + 26
        /\ syx[4103] \in 0..127
        /\ syx[4104] = 247

\* the call has returned for the empty list and for a full list
C1_Witness ==
    /\ pc = "returned"
    /\ Len(given) \in {0, 32}
    /\ Len(syx) = 4104
    /\ syx[1] = 240

\* the packed INIT voice: default operators (output level 99 only on the
\* enabled OP1, last operator position), pitch envelope 50, algorithm 0,
\* key sync on, transpose 24, name "INIT VOICE"
InitRecordOP(ol) == <<99, 99, 99, 99, 99, 99, 90, 0, 36, 0, 0, 0, 56, 0, ol, 2, 0>>

InitRecord ==
    InitRecordOP(0) \o InitRecordOP(0) \o InitRecordOP(0) \o
    InitRecordOP(0) \o InitRecordOP(0) \o InitRecordOP(99) \o
    <<50, 50, 50, 50, 50, 50, 50, 50, 0, 16, 0, 0, 0, 0, 0, 24>> \o
    <<73, 78, 73, 84, 32, 86, 79, 73, 67, 69>>

\* C4: with n < 32 given voices, records 0..n-1 are the given voices
\* packed in order and records n..31 are the packed INIT voice
C4_PaddedWithInitVoice ==
    (pc = "returned" /\ Len(given) < 32) =>
        /\ \A r \in 0..(Len(given) - 1) :
              SyxRecord(syx, r) = packed_DX7Voice(given[r + 1]).bytes
        /\ \A r \in Len(given)..31 : SyxRecord(syx, r) = InitRecord

\* eight voices were given: record 7 is the last of them, record 8 is the
\* INIT voice
C4_Witness ==
    /\ pc = "returned"
    /\ Len(given) = 8
    /\ SyxRecord(syx, 7) = packed_DX7Voice(given[8]).bytes
    /\ SyxRecord(syx, 7) # InitRecord
    /\ SyxRecord(syx, 8) = InitRecord

\* ------------------------------------------------------------------------
\* mdxtract.py / pmd2syx.py: instrument record -> OPMVoice

MDXVoice_to_OPMOP(op, mdxv) ==
    [TL  |-> BitAnd(mdxv[7 + op + 1], 255),
     AR  |-> BitAnd(mdxv[11 + op + 1], 31),
     D1R |-> BitAnd(mdxv[15 + op + 1], 31),
     D1L |-> BitAnd(Shr(mdxv[23 + op + 1], 4), 15),
     D2R |-> BitAnd(mdxv[19 + op + 1], 31),
     RR  |-> BitAnd(mdxv[23 + op + 1], 15),
     KS  |-> BitAnd(Shr(mdxv[11 + op + 1], 6), 3),
     MUL |-> BitAnd(mdxv[3 + op + 1], 15),
     DT1 |-> BitAnd(Shr(mdxv[3 + op + 1], 4), 7),
     DT2 |-> BitAnd(Shr(mdxv[19 + op + 1], 6), 3),
     AME |-> BitAnd(Shr(mdxv[15 + op + 1], 7), 1)]

MDXVoice_to_OPMVoice(name, mdxv) ==
    [name |-> name,
     FL   |-> BitAnd(Shr(mdxv[1 + 1], 3), 7),
     CON  |-> BitAnd(mdxv[1 + 1], 7),
     SLOT |-> BitAnd(mdxv[2 + 1], 255),
     NE |-> 0, NFRQ |-> 0, AMS |-> 0, PMS |-> 0, LFRQ |-> 63, WF |-> 2,
     PMD |-> 63, AMD |-> 63,
     OPM1 |-> MDXVoice_to_OPMOP(0, mdxv),
     OPM2 |-> MDXVoice_to_OPMOP(1, mdxv),
     OPC1 |-> MDXVoice_to_OPMOP(2, mdxv),
     OPC2 |-> MDXVoice_to_OPMOP(3, mdxv)]

PMDVoice_to_OPMOP(op, pmdv) ==
    [TL  |-> BitAnd(pmdv[5 + op + 1], 255),
     AR  |-> BitAnd(pmdv[9 + op + 1], 31),
     D1R |-> BitAnd(pmdv[13 + op + 1], 31),
     D1L |-> BitAnd(Shr(pmdv[21 + op + 1], 4), 15),
     D2R |-> BitAnd(pmdv[17 + op + 1], 31),
     RR  |-> BitAnd(pmdv[21 + op + 1], 15),
     KS  |-> BitAnd(Shr(pmdv[9 + op + 1], 6), 3),
     MUL |-> BitAnd(pmdv[1 + op + 1], 15),
     DT1 |-> BitAnd(Shr(pmdv[1 + op + 1], 4), 7),
     DT2 |-> BitAnd(Shr(pmdv[17 + op + 1], 6), 3),
     AME |-> BitAnd(Shr(pmdv[13 + op + 1], 7), 1)]

PMDVoice_to_OPMVoice(name, pmdv) ==
    [name |-> name,
     FL   |-> BitAnd(Shr(pmdv[25 + 1], 3), 7),
     CON  |-> BitAnd(pmdv[25 + 1], 7),
     SLOT |-> 15,
     NE |-> 0, NFRQ |-> 0, AMS |-> 0, PMS |-> 0, LFRQ |-> 63, WF |-> 2,
     PMD |-> 63, AMD |-> 63,
     OPM1 |-> PMDVoice_to_OPMOP(0, pmdv),
     OPM2 |-> PMDVoice_to_OPMOP(1, pmdv),
     OPC1 |-> PMDVoice_to_OPMOP(2, pmdv),
     OPC2 |-> PMDVoice_to_OPMOP(3, pmdv)]

\* ------------------------------------------------------------------------
\* mdxtract.py / pmd2syx.py: main, the conversion of one input file

RECURSIVE Digits(_, _)
\* the digits of n >= 0 in the given base, most significant first
Digits(n, base) ==
    IF n < base THEN <<n>> ELSE Append(Digits(n \div base, base), n % base)

\* "{:02X}".format(n)
format_02X(n) ==
    LET d == Digits(n, 16)
        h == [k \in 1..Len(d) |-> HexChar(d[k])]
    IN  IF Len(h) < 2 THEN <<48>> \o h ELSE h

\* "{}".format(n) for an integer n >= 0
format_int(n) == LET d == Digits(n, 10) IN [k \in 1..Len(d) |-> 48 + d[k]]

\* vn = basename[:7] + "_{:02X}".format(id)
voice_name(base, id) == Take(base, 7) \o <<95>> \o format_02X(id)

\* the OPMVoice made of instrument record number i (from 0): mdxtract names
\* it after i, pmd2syx after the voice id in the first byte of the record
make_OPMVoice(t, base, i, vd) ==
    IF t = "mdxtract" THEN MDXVoice_to_OPMVoice(voice_name(base, i), vd)
    ELSE PMDVoice_to_OPMVoice(voice_name(base, vd[1]), vd)

batch_size_33 == 33

batch_size == 32

\* number of slices [opmvoices[c:c+batch_size] for c in range(0, n, batch_size)]
NBatches(n) == (n + batch_size - 1) \div batch_size

\* the i-th slice (from 0)
opmv_batch(voices, i) == Slice(voices, i * batch_size, i * batch_size + batch_size)

\* ".syx"
syx_ext == <<46, 115, 121, 120>>

\* "{}.syx".format(basepath), or "{}_{}.syx".format(basepath, i) if i > 0
outpath(base, i) ==
    IF i > 0 THEN base \o <<95>> \o format_int(i) \o syx_ext
    ELSE base \o syx_ext

\* length of an instrument record: voice_len
voice_len(t) == IF t = "mdxtract" THEN 27 ELSE 26

\* instrument record number k (from 1) of the input file: every byte takes
\* all of its 8 bits over the records, and no two records are equal
VoiceRecord(t, k) ==
    [j \in 1..voice_len(t) |-> (k * 37 + j * 59 + k * j * 3 + 128) % 256]

\* "SONG" and "BGM_TOWN2"
BaseNames == {<<83, 79, 78, 71>>, <<66, 71, 77, 95, 84, 79, 87, 78, 50>>}

\* the record counts tried: around the batch boundaries and every eighth
VoiceCounts ==
    {n \in 0..MaxVoices :
        n <= 2 \/ n % 8 = 0 \/ n % 32 \in {1, 31} \/ n = MaxVoices}

\* the state after the input file has been read and parsed
Init ==
    /\ IdleVoice /\ IdleCodec /\ IdleParse /\ IdleBatch
    /\ IdleUtil /\ IdleEquiv
    /\ pc = "parsed"
    /\ tool \in {"mdxtract", "pmd2syx"}
    /\ basename \in BaseNames
    /\ basepath = <<47, 109, 47>> \o basename
    /\ \E n \in VoiceCounts : voice_data = [k \in 1..n |-> VoiceRecord(tool, k)]
    /\ opmvoices = <<>>
    /\ batch = 0
    /\ given = <<>> /\ dx7voices = <<>> /\ syx = <<>>
    /\ outfiles = <<>>

\* pmd2syx: if pmd.valid is False or len(pmd.voice_data) == 0: continue
SkipFile ==
    /\ pc = "parsed"
    /\ tool = "pmd2syx"
    /\ Len(voice_data) = 0
    /\ pc' = "skipped"
    /\ UNCHANGED <<toolVars, sysexVars, voiceVars, codecVars>>
    /\ UNCHANGED <<parseVars, batchVars, utilVars, equivVars>>

\* Make OPMVoice list
MakeOPMVoices ==
    /\ pc = "parsed"
    /\ ~(tool = "pmd2syx" /\ Len(voice_data) = 0)
    /\ opmvoices' = [k \in 1..Len(voice_data) |->
                        make_OPMVoice(tool, basename, k - 1, voice_data[k])]
    /\ batch' = 0
    /\ pc' = "render"
    /\ UNCHANGED <<tool, basepath, basename, voice_data, outfiles,
                   sysexVars, voiceVars, codecVars>>
    /\ UNCHANGED <<parseVars, batchVars, utilVars, equivVars>>

\* one iteration of the batch loop: convert the voices of slice number
\* batch, render the sysex message and write it to outpath
RenderBatch ==
    /\ pc = "render"
    /\ batch < NBatches(Len(opmvoices))
    /\ LET b    == opmv_batch(opmvoices, batch)
           dx7  == [k \in 1..Len(b) |-> OPMVoice_to_DX7Voice(b[k])]
           r    == sysex_from_DX7Voices(dx7)
           path == outpath(basepath, batch)
       IN  /\ given' = dx7
           /\ dx7voices' = r.list
           /\ syx' = r.syx
           /\ outfiles' = [q \in DOMAIN outfiles \cup {path} |->
                              IF q = path THEN r.syx ELSE outfiles[q]]
           /\ pc' = IF r.ok THEN "render" ELSE "crashed"
    /\ batch' = batch + 1
    /\ UNCHANGED <<tool, basepath, basename, voice_data, opmvoices,
                   voiceVars, codecVars>>
    /\ UNCHANGED <<parseVars, batchVars, utilVars, equivVars>>

\* the batch loop is exhausted
EndFile ==
    /\ pc = "render"
    /\ batch = NBatches(Len(opmvoices))
    /\ pc' = "done"
    /\ UNCHANGED <<toolVars, sysexVars, voiceVars, codecVars>>
    /\ UNCHANGED <<parseVars, batchVars, utilVars, equivVars>>

Next == SkipFile \/ MakeOPMVoices \/ RenderBatch \/ EndFile

Spec == Init /\ [][Next]_vars

\* ------------------------------------------------------------------------
\* Properties of the conversion loop (Spec)

\* C2: in every message written, the checksum byte c is in 0..127 and
\* the 4096 data bytes plus c add up to 0 modulo 128, block by block
C2_ChecksumValid ==
    \A q \in DOMAIN outfiles :
        LET msg == outfiles[q]
            c   == msg[6 + 4096 + 1]
        IN  /\ Len(msg) = 4104
            /\ c \in 0..127
            /\ (SumSeq(SubSeq(msg, 7, 6 + 4096)) + c) % 128 = 0

\* a file of more than 32 voices has been written as two blocks, and the
\* checksum of the second one is not the trivial 0
C2_Witness ==
    /\ pc = "done"
    /\ Cardinality(DOMAIN outfiles) = 2
    /\ outfiles[outpath(basepath, 1)][4103] # 0

\* data record r of the stream that carries instrument record idx (from 0)
\* of the file, or the INIT voice past its last record
ExpectedRecord(idx) ==
    IF idx < Len(voice_data)
    THEN packed_DX7Voice(OPMVoice_to_DX7Voice(
             make_OPMVoice(tool, basename, idx, voice_data[idx + 1]))).bytes
    ELSE InitRecord

\* the identifiers of the first n streams: base.syx, base_1.syx, ...
StreamPaths(n) ==
    {basepath \o syx_ext} \cup
    {basepath \o <<95>> \o format_int(k) \o syx_ext : k \in 1..(n - 1)}

\* C5: once a file of n records is finished (converted, or skipped by
\* pmd2syx for having no record) it has given ceil(n/32) streams under
\* pairwise distinct identifiers, and stream k holds records 32k..32k+31
\* of the file in order, the INIT voice filling the last stream
C5_BatchesOf32 ==
    pc \in {"done", "skipped"} =>
        LET n  == Len(voice_data)
            nb == IF n % 32 = 0 THEN n \div 32 ELSE n \div 32 + 1
        IN  /\ batch = nb
            /\ Cardinality(DOMAIN outfiles) = nb
            /\ DOMAIN outfiles = IF nb = 0 THEN {} ELSE StreamPaths(nb)
            /\ \A k \in 0..(nb - 1) :
                  \A r \in 0..31 :
                      SyxRecord(outfiles[outpath(basepath, k)], r)
                          = ExpectedRecord(32 * k + r)

\* 40 records: two streams, the second with 8 voices and 24 INIT voices
C5_Witness ==
    /\ pc = "done"
    /\ Len(voice_data) = 40
    /\ Cardinality(DOMAIN outfiles) = 2
    /\ SyxRecord(outfiles[outpath(basepath, 1)], 7) = ExpectedRecord(39)
    /\ SyxRecord(outfiles[outpath(basepath, 1)], 7) # InitRecord
    /\ SyxRecord(outfiles[outpath(basepath, 1)], 8) = InitRecord

\* ------------------------------------------------------------------------
\* common.py: the ADPCM decoders

\* struct.pack("<h", x): ok = FALSE outside the signed 16-bit range
pack_h(x) ==
    IF x < -32768 \/ x > 32767 THEN [ok |-> FALSE, bytes |-> <<>>]
    ELSE [ok |-> TRUE, bytes |-> <<x % 256, (x \div 256) % 256>>]

YM_diff_lut_linear == <<0, 1, 2, 3, 4, 5, 6, 7, 0, -1, -2, -3, -4, -5, -6, -7>>

YM_diff_lut == <<1, 3, 5, 7, 9, 11, 13, 15, -1, -3, -5, -7, -9, -11, -13, -15>>

YM_step_lut == <<57, 57, 57, 57, 77, 102, 128, 153,
                 57, 57, 57, 57, 77, 102, 128, 153>>

YM_step_max_int16 == 32767

YM_step_max == 24576

YM_step_min == 127

\* int(math.floor(16.0 * pow(11.0 / 10.0, float(step)))) for step 0..48,
\* as the floating point expression evaluates
OKI_stepval ==
    <<16, 17, 19, 21, 23, 25, 28, 31, 34, 37, 41, 45, 50, 55, 60, 66, 73,
      80, 88, 97, 107, 118, 130, 143, 157, 173, 190, 209, 230, 253, 279,
      307, 337, 371, 408, 449, 494, 544, 598, 658, 724, 796, 876, 963,
      1060, 1166, 1282, 1411, 1552>>

OKI_bitmap ==
    << <<1, 0, 0, 0>>, <<1, 0, 0, 1>>, <<1, 0, 1, 0>>, <<1, 0, 1, 1>>,
       <<1, 1, 0, 0>>, <<1, 1, 0, 1>>, <<1, 1, 1, 0>>, <<1, 1, 1, 1>>,
       <<-1, 0, 0, 0>>, <<-1, 0, 0, 1>>, <<-1, 0, 1, 0>>, <<-1, 0, 1, 1>>,
       <<-1, 1, 0, 0>>, <<-1, 1, 0, 1>>, <<-1, 1, 1, 0>>, <<-1, 1, 1, 1>> >>

\* make_diff_lut(): entry step * 16 + n is at index step * 16 + n + 1
OKI_diff_lut ==
    [k \in 1..(49 * 16) |->
        LET stepval == OKI_stepval[((k - 1) \div 16) + 1]
            b       == OKI_bitmap[((k - 1) % 16) + 1]
        IN  b[1] * (stepval * b[2] + (stepval \div 2) * b[3]
                    + (stepval \div 4) * b[4] + stepval \div 8)]

\* OKI_ADPCM.diff_lut[i]: a list index below -len or from len on raises
\* IndexError, a negative one counts from the end
OKI_diff(i) ==
    IF i >= 0 /\ i < Len(OKI_diff_lut) THEN [ok |-> TRUE, value |-> OKI_diff_lut[i + 1]]
    ELSE IF i < 0 /\ i >= -Len(OKI_diff_lut)
         THEN [ok |-> TRUE, value |-> OKI_diff_lut[Len(OKI_diff_lut) + i + 1]]
    ELSE [ok |-> FALSE, value |-> 0]

OKI_step_lut == <<-1, -1, -1, -1, 2, 4, 6, 8, -1, -1, -1, -1, 2, 4, 6, 8>>

OKI_step_max_49 == 49

OKI_step_max == 48

OKI_step_min == 0

\* ------------------------------------------------------------------------
\* SpecYM, SpecOKI: one call of a decoder, one nibble per step

\* bytes that may follow the run
TailBytes == {0, 18, 52, 127, 128, 240}

RECURSIVE TailsOf(_)
\* the byte sequences over TailBytes of length up to n
TailsOf(n) ==
    IF n = 0 THEN {<<>>}
    ELSE LET shorter == TailsOf(n - 1)
         IN  shorter \cup {Append(t, b) : t \in shorter, b \in TailBytes}

\* the decoder inputs: up to maxrun times 0x77 or 0xFF (the nibbles that
\* push signal and step to their limits), then a tail
DecoderInputs(maxrun) ==
    {[k \in 1..r |-> b] \o t : r \in 0..maxrun, b \in {119, 255}, t \in TailsOf(MaxTail)}

InitYM ==
    /\ IdleTool /\ IdleSysex /\ IdleVoice /\ IdleParse /\ IdleBatch
    /\ IdleUtil /\ IdleEquiv
    /\ pc = "ym"
    /\ data \in DecoderInputs(MaxYMRun)
    /\ nib = 0
    /\ signal = 0
    /\ step = 127
    /\ decoded = <<>>

\* YM_ADPCM.decode: the body of the loop for one nibble
YMDecodeNibble ==
    /\ pc = "ym"
    /\ nib < 2 * Len(data)
    /\ LET nibble == nibbles(data, TRUE)[nib + 1]
           s      == clip_int16(8 * signal + step * YM_diff_lut[nibble + 1], 8)
           p      == pack_h(s)
       IN  /\ signal' = s
           /\ step' = clip_int(step * YM_step_lut[nibble + 1], 64,
                               YM_step_min, YM_step_max)
           /\ decoded' = decoded \o p.bytes
           /\ pc' = IF p.ok THEN "ym" ELSE "raised"
    /\ nib' = nib + 1
    /\ UNCHANGED <<data, toolVars, sysexVars, voiceVars>>
    /\ UNCHANGED <<parseVars, batchVars, utilVars, equivVars>>

\* YM_ADPCM.decode: the nibbles are exhausted, return decoded
YMReturn ==
    /\ pc = "ym"
    /\ nib = 2 * Len(data)
    /\ pc' = "decoded"
    /\ UNCHANGED <<codecVars, toolVars, sysexVars, voiceVars>>
    /\ UNCHANGED <<parseVars, batchVars, utilVars, equivVars>>

NextYM == YMDecodeNibble \/ YMReturn

SpecYM == InitYM /\ [][NextYM]_vars

InitOKI ==
    /\ IdleTool /\ IdleSysex /\ IdleVoice /\ IdleParse /\ IdleBatch
    /\ IdleUtil /\ IdleEquiv
    /\ pc = "oki"
    /\ data \in DecoderInputs(MaxOKIRun)
    /\ nib = 0
    /\ signal = -2
    /\ step = 0
    /\ decoded = <<>>

\* OKI_ADPCM.decode: the body of the loop for one nibble
OKIDecodeNibble ==
    /\ pc = "oki"
    /\ nib < 2 * Len(data)
    /\ LET nibble == nibbles(data, FALSE)[nib + 1]
           d      == OKI_diff(step * 16 + nibble)
           s      == clip_int16(signal + d.value, 1)
           p      == pack_h(s)
       IN  IF d.ok /\ p.ok
           THEN /\ signal' = s
                /\ step' = clip_int(step + OKI_step_lut[nibble + 1], 1,
                                    OKI_step_min, OKI_step_max)
                /\ decoded' = decoded \o p.bytes
                /\ pc' = "oki"
           ELSE /\ pc' = "raised"
                /\ UNCHANGED <<signal, step, decoded>>
    /\ nib' = nib + 1
    /\ UNCHANGED <<data, toolVars, sysexVars, voiceVars>>
    /\ UNCHANGED <<parseVars, batchVars, utilVars, equivVars>>

\* OKI_ADPCM.decode: the nibbles are exhausted, return decoded
OKIReturn ==
    /\ pc = "oki"
    /\ nib = 2 * Len(data)
    /\ pc' = "decoded"
    /\ UNCHANGED <<codecVars, toolVars, sysexVars, voiceVars>>
    /\ UNCHANGED <<parseVars, batchVars, utilVars, equivVars>>

NextOKI == OKIDecodeNibble \/ OKIReturn

SpecOKI == InitOKI /\ [][NextOKI]_vars

\* ------------------------------------------------------------------------
\* Properties of the decoders (SpecYM, SpecOKI)

\* sample number k (from 1) of a little-endian 16-bit sample buffer
SampleAt(buf, k) ==
    LET u == buf[2 * k - 1] + 256 * buf[2 * k]
    IN  IF u >= 32768 THEN u - 65536 ELSE u

\* nibble number k (from 0) of the input when the high nibble of each
\* byte comes first, and when the low nibble comes first
HighFirst(k) == LET byte == data[(k \div 2) + 1]
                IN  IF k % 2 = 0 THEN byte \div 16 ELSE byte % 16

LowFirst(k) == LET byte == data[(k \div 2) + 1]
               IN  IF k % 2 = 0 THEN byte % 16 ELSE byte \div 16

\* the decoder never raises, has emitted one 16-bit sample in range per
\* nibble consumed, and returns with two samples per input byte
SamplesInRange ==
    /\ pc # "raised"
    /\ Len(decoded) = 2 * nib
    /\ \A k \in 1..nib : SampleAt(decoded, k) \in -32768..32767
    /\ nib > 0 => SampleAt(decoded, nib) = signal
    /\ pc = "decoded" => nib = 2 * Len(data)

\* C9: in the DELTA-T decoder the step stays in 127..24576 and every
\* sample in -32768..32767, two samples per input byte, and the nibble
\* consumed first in each byte is the high one
C9_YMRanges ==
    /\ [](SamplesInRange /\ step \in 127..24576)
    /\ [][nib' = nib + 1 =>
             /\ signal' = clip_int16(8 * signal + step * YM_diff_lut[HighFirst(nib) + 1], 8)
             /\ step' \in 127..24576]_vars

\* the decoder has returned with the step at its maximum and a sample at
\* the positive limit, after a byte whose two nibbles differ
C9_Witness ==
    /\ pc = "decoded"
    /\ step = 24576
    /\ \E k \in 1..nib : SampleAt(decoded, k) = 32767
    /\ \E k \in 1..Len(data) : data[k] = 18
    /\ Len(decoded) = 4 * Len(data)

\* C10: in the MSM6258V decoder the step stays in 0..48, so the index
\* step * 16 + nibble of the next lookup is in 0..783 and the lookup does
\* not fail; every sample is in -32768..32767, two samples per input
\* byte, and the nibble consumed first in each byte is the low one
C10_OKIRanges ==
    /\ [](/\ SamplesInRange
          /\ step \in 0..48
          /\ nib < 2 * Len(data) => step * 16 + LowFirst(nib) \in 0..783)
    /\ [][nib' = nib + 1 =>
             /\ signal' = clip_int16(signal + OKI_diff_lut[step * 16 + LowFirst(nib) + 1], 1)
             /\ step' \in 0..48]_vars

\* the decoder has returned with the step at its maximum and a sample at
\* the negative limit, after a byte whose two nibbles differ
C10_Witness ==
    /\ pc = "decoded"
    /\ step = 48
    /\ \E k \in 1..nib : SampleAt(decoded, k) = -32768
    /\ \E k \in 1..Len(data) : data[k] = 240
    /\ Len(decoded) = 4 * Len(data)

\* C11: the two bytes 0x12, 0x34 decode, from signal 0 and step 127, to
\* the four samples 47, 126, 237, 379 in that order (one per nibble 1, 2,
\* 3, 4), and the decoder returns with the step at 152, on every run
C11_GoldenVector ==
    data = <<18, 52>> =>
        /\ pc # "raised"
        /\ nib <= 4
        /\ Len(decoded) = 2 * nib
        /\ \A k \in 1..nib : SampleAt(decoded, k) = <<47, 126, 237, 379>>[k]
        /\ nib = 0 => (signal = 0 /\ step = 127)
        /\ nib \in 1..3 => step = 127
        /\ pc = "decoded" => (nib = 4 /\ step = 152)

\* the decoder has returned from the two bytes with the fourth sample
C11_Witness ==
    /\ pc = "decoded"
    /\ data = <<18, 52>>
    /\ nibbles(data, TRUE) = <<1, 2, 3, 4>>
    /\ Len(decoded) = 8
    /\ SampleAt(decoded, 4) = 379
    /\ step = 152

\* ------------------------------------------------------------------------
\* util.py: unsigned integers read from a buffer
\* (offset o of a Python buffer is index o + 1 here)

\* the n bytes at offsets offset .. offset + n - 1 exist; a read of one
\* that does not raises IndexError
in_buffer(d, offset, n) == offset + n <= Len(d)

get_uint16(d, offset, big_endian) ==
    IF ~big_endian THEN d[offset + 1] + Shl(d[offset + 2], 8)
    ELSE Shl(d[offset + 1], 8) + d[offset + 2]

get_uint24(d, offset, big_endian) ==
    IF ~big_endian
    THEN Shl(d[offset + 3], 16) + Shl(d[offset + 2], 8) + d[offset + 1]
    ELSE Shl(d[offset + 1], 16) + Shl(d[offset + 2], 8) + d[offset + 3]

get_uint32(d, offset, big_endian) ==
    IF ~big_endian
    THEN Shl(d[offset + 4], 24) + Shl(d[offset + 3], 16)
         + Shl(d[offset + 2], 8) + d[offset + 1]
    ELSE Shl(d[offset + 1], 24) + Shl(d[offset + 2], 16)
         + Shl(d[offset + 3], 8) + d[offset + 4]

\* clip_int8(value) for an integer value
clip_int8(value) == Max(-128, Min(value, 127))

\* ------------------------------------------------------------------------
\* The decoders as functions of their whole input

\* YM_ADPCM.decode, the body of the loop for one nibble: the signal and
\* the step after it and the two bytes appended; ok = FALSE if
\* struct.pack raises
YM_decode_nibble(sig, stp, nibble) ==
    LET s == clip_int16(8 * sig + stp * YM_diff_lut[nibble + 1], 8)
        p == pack_h(s)
    IN  [ok  |-> p.ok,
         sig |-> s,
         stp |-> clip_int(stp * YM_step_lut[nibble + 1], 64,
                          YM_step_min, YM_step_max),
         pcm |-> p.bytes]

RECURSIVE YM_decode_range(_, _, _, _, _)
\* the loop over nibbles lo..hi of nb entered with sig and stp, the range
\* being split in halves that are decoded one after the other
YM_decode_range(nb, lo, hi, sig, stp) ==
    IF lo > hi THEN [ok |-> TRUE, sig |-> sig, stp |-> stp, pcm |-> <<>>]
    ELSE IF lo = hi THEN YM_decode_nibble(sig, stp, nb[lo])
    ELSE LET mid == (lo + hi) \div 2
             a   == YM_decode_range(nb, lo, mid, sig, stp)
             b   == YM_decode_range(nb, mid + 1, hi, a.sig, a.stp)
         IN  IF ~a.ok THEN a
             ELSE [ok |-> b.ok, sig |-> b.sig, stp |-> b.stp,
                   pcm |-> a.pcm \o b.pcm]

\* YM_ADPCM.decode(data): ok = FALSE if the call raises
YM_decode(d) ==
    LET nb == nibbles(d, TRUE)
        r  == YM_decode_range(nb, 1, Len(nb), 0, 127)
    IN  [ok |-> r.ok, pcm |-> r.pcm]

\* OKI_ADPCM.decode, the body of the loop for one nibble; ok = FALSE if
\* the table lookup or struct.pack raises
OKI_decode_nibble(sig, stp, nibble) ==
    LET dv == OKI_diff(stp * 16 + nibble)
        s  == clip_int16(sig + dv.value, 1)
        p  == pack_h(s)
    IN  [ok  |-> dv.ok /\ p.ok,
         sig |-> s,
         stp |-> clip_int(stp + OKI_step_lut[nibble + 1], 1,
                          OKI_step_min, OKI_step_max),
         pcm |-> p.bytes]

RECURSIVE OKI_decode_range(_, _, _, _, _)
\* the loop over nibbles lo..hi of nb entered with sig and stp
OKI_decode_range(nb, lo, hi, sig, stp) ==
    IF lo > hi THEN [ok |-> TRUE, sig |-> sig, stp |-> stp, pcm |-> <<>>]
    ELSE IF lo = hi THEN OKI_decode_nibble(sig, stp, nb[lo])
    ELSE LET mid == (lo + hi) \div 2
             a   == OKI_decode_range(nb, lo, mid, sig, stp)
             b   == OKI_decode_range(nb, mid + 1, hi, a.sig, a.stp)
         IN  IF ~a.ok THEN a
             ELSE [ok |-> b.ok, sig |-> b.sig, stp |-> b.stp,
                   pcm |-> a.pcm \o b.pcm]

\* OKI_ADPCM.decode(data): ok = FALSE if the call raises
OKI_decode(d) ==
    LET nb == nibbles(d, FALSE)
        r  == OKI_decode_range(nb, 1, Len(nb), -2, 0)
    IN  [ok |-> r.ok, pcm |-> r.pcm]

\* audioop.lin2lin(d, 1, 2): each signed 8-bit sample v becomes the
\* little-endian 16-bit sample v << 8, i.e. a zero byte and the byte itself
lin2lin_1_2(d) ==
    [k \in 1..(2 * Len(d)) |-> IF k % 2 = 1 THEN 0 ELSE d[k \div 2]]

\* struct.pack("b", x) for x in -128..127: the byte of the signed value
pack_b(x) == x % 256

\* the PPS samples: per byte, low nibble then high nibble, each
\* clip_int8((nibble << 3) - 60), widened to 16 bits
PPS_decode(d) ==
    LET nb == nibbles(d, FALSE)
    IN  lin2lin_1_2([k \in 1..Len(nb) |-> pack_b(clip_int8(Shl(nb[k], 3) - 60))])

\* ------------------------------------------------------------------------
\* Results of the archive parsers

\* "{:03}".format(i)
format_03(i) ==
    LET t == format_int(i)
    IN  [k \in 1..(3 - Len(t)) |-> 48] \o t

\* pcm_data.append((pcm, "{:03}".format(i)))
entry(pcm, i) == [present |-> TRUE, pcm |-> pcm, name |-> format_03(i)]

\* pcm_data.append(None)
None == [present |-> FALSE, pcm |-> <<>>, name |-> <<>>]

\* the pair type, pcm_data an extractor returns
returned(type, pcm_data) ==
    [status |-> "returned", type |-> type, error |-> "", pcm_data |-> pcm_data]

\* the call does not return: error is the exception that propagates
raised(error) ==
    [status |-> "raised", type |-> "", error |-> error, pcm_data |-> <<>>]

\* def bad_data(): return False,[]
bad_data == returned("False", <<>>)

\* the entries of pcm_data for the table offsets: slot i is decoded from
\* bytes(i) when cond(i) holds and is None otherwise; a decoder that
\* raises takes the whole call with it
slots(type, n, cond(_), dec(_)) ==
    LET e == [i \in 1..n |-> IF cond(i) THEN dec(i) ELSE [ok |-> TRUE, pcm |-> <<>>]]
    IN  IF \E i \in 1..n : ~e[i].ok THEN raised("error")
        ELSE returned(type, [i \in 1..n |->
                 IF cond(i) THEN entry(e[i].pcm, i - 1) ELSE None])

\* ------------------------------------------------------------------------
\* pmd2wav.py: the typed extractors

\* bytearray([0x00] * n)
zeros(n) == [k \in 1..n |-> 0]

\* the offsets the PPC table loop reads as 16-bit fields, and the header field
ppc_reads == {30} \cup {32 + i * 4 : i \in 0..255} \cup {34 + i * 4 : i \in 0..255}

\* pcm_offsets of extract_ppc: (start, end) of slot i - 1
ppc_offsets(d) ==
    [i \in 1..256 |->
        <<Shl(get_uint16(d, 32 + (i - 1) * 4, FALSE), 5),
          Shl(get_uint16(d, 34 + (i - 1) * 4, FALSE), 5) - 1>>]

\* a PPC slot is decoded when end - start exceeds this
ppc_min_extent == 8

extract_ppc(d) ==
    LET data_len    == Len(d)
        header_len  == 30
        pcm_offsets == ppc_offsets(d)
        pcm_ends    == Shl(get_uint16(d, header_len, FALSE), 5)
        pcm_ram     == zeros(Shl(38, 5)) \o Slice(d, 1056, data_len)
        pcm_ram_len == Len(pcm_ram)
        cond(i) == /\ pcm_offsets[i][2] <= pcm_ram_len
                   /\ pcm_offsets[i][2] - pcm_offsets[i][1] > ppc_min_extent
        dec(i)  == YM_decode(Slice(pcm_ram, pcm_offsets[i][1], pcm_offsets[i][2]))
    IN  IF data_len < header_len + 256 * 4 + 2 THEN bad_data
        ELSE IF \E o \in ppc_reads : ~in_buffer(d, o, 2) THEN raised("IndexError")
        ELSE IF pcm_ram_len # pcm_ends THEN bad_data
        ELSE slots("PPC", 256, cond, dec)

\* the offsets the PPS table loop reads as 16-bit fields
pps_reads == {i * 6 : i \in 0..13} \cup {i * 6 + 2 : i \in 0..13}

\* pcm_offsets of extract_pps
pps_offsets(d) ==
    [i \in 1..14 |->
        LET start == get_uint16(d, (i - 1) * 6, FALSE)
        IN  <<start, start + get_uint16(d, (i - 1) * 6 + 2, FALSE) - 1>>]

\* a PPS slot is decoded when end - start exceeds 0x20
pps_min_extent == 32

extract_pps(d) ==
    LET data_len    == Len(d)
        header_len  == 84
        pcm_offsets == pps_offsets(d)
        cond(i) == /\ pcm_offsets[i][1] > 0
                   /\ pcm_offsets[i][2] <= data_len
                   /\ pcm_offsets[i][2] - pcm_offsets[i][1] > pps_min_extent
        dec(i)  == [ok  |-> TRUE,
                    pcm |-> PPS_decode(Slice(d, pcm_offsets[i][1],
                                             pcm_offsets[i][2] + 1))]
    IN  IF data_len < header_len THEN bad_data
        ELSE IF \E o \in pps_reads : ~in_buffer(d, o, 2) THEN raised("IndexError")
        ELSE IF \E i \in 1..14 : pcm_offsets[i][1] > data_len THEN bad_data
        ELSE slots("PPS", 14, cond, dec)

\* the offsets the PVI table loop reads as 16-bit fields
pvi_reads == {i * 4 + 16 : i \in 0..127} \cup {i * 4 + 18 : i \in 0..127}

\* pcm_offsets of extract_pvi
pvi_offsets(d) ==
    [i \in 1..128 |->
        LET used  == get_uint16(d, (i - 1) * 4 + 18, FALSE) # 0
            start == IF used THEN Shl(get_uint16(d, (i - 1) * 4 + 16, FALSE), 5)
                     ELSE 0
            end0  == IF used THEN Shl(get_uint16(d, (i - 1) * 4 + 18, FALSE), 5) - 1
                     ELSE 0
            end   == IF end0 < start THEN start ELSE end0
        IN  <<start + 528, end + 528>>]

\* a PVI slot is decoded when end - start exceeds this
pvi_min_extent == 8

extract_pvi(d) ==
    LET data_len    == Len(d)
        pcm_offsets == pvi_offsets(d)
        cond(i) == /\ pcm_offsets[i][2] <= data_len
                   /\ pcm_offsets[i][2] - pcm_offsets[i][1] > pvi_min_extent
        dec(i)  == YM_decode(Slice(d, pcm_offsets[i][1], pcm_offsets[i][2]))
    IN  IF data_len < 528 THEN bad_data
        ELSE IF \E o \in pvi_reads : ~in_buffer(d, o, 2) THEN raised("IndexError")
        ELSE slots("PVI", 128, cond, dec)

\* the offsets the P86 table loop reads as 24-bit fields, and the size field
p86_reads == {13} \cup {16 + i * 6 : i \in 0..255} \cup {16 + 3 + i * 6 : i \in 0..255}

\* pcm_offsets of extract_p86
p86_offsets(d) ==
    [i \in 1..256 |->
        LET start == get_uint24(d, 16 + (i - 1) * 6, FALSE)
            end   == start + get_uint24(d, 16 + 3 + (i - 1) * 6, FALSE) - 1
        IN  <<start, IF end < 0 THEN 0 ELSE end>>]

p86_min_extent_31 == 31

\* a P86 slot is decoded when end - start exceeds 0x20
p86_min_extent == 32

extract_p86(d) ==
    LET data_len    == Len(d)
        header_len  == 16
        pcm_offsets == p86_offsets(d)
        cond(i) == /\ pcm_offsets[i][1] > 0
                   /\ pcm_offsets[i][2] <= data_len
                   /\ pcm_offsets[i][2] - pcm_offsets[i][1] > p86_min_extent
        dec(i)  == [ok  |-> TRUE,
                    pcm |-> lin2lin_1_2(Slice(d, pcm_offsets[i][1],
                                              pcm_offsets[i][2] + 1))]
    IN  IF data_len < header_len + 256 * 6 + 2 THEN bad_data
        ELSE IF \E o \in p86_reads : ~in_buffer(d, o, 3) THEN raised("IndexError")
        ELSE IF data_len # get_uint24(d, 13, FALSE) THEN bad_data
        ELSE IF \E i \in 1..256 : pcm_offsets[i][1] > data_len THEN bad_data
        ELSE slots("P86", 256, cond, dec)

\* the table loop of extract_p68: it leaves at the first index i at which
\* a field it reads lies past the buffer (IndexError), the start of slot i
\* is past the buffer (bad_data), or the entry before i is the length of
\* the buffer (the slot appended last is dropped); otherwise it appends
\* (start, end) of slot i.  status is "ok" with the final pcm_offsets,
\* "bad" or "raised"
p68_walk(d) ==
    LET T(i)      == get_uint32(d, i * 4, TRUE)
        leaves(i) == \/ ~in_buffer(d, i * 4, 4)
                     \/ T(i) > Len(d)
                     \/ ~in_buffer(d, 4 + i * 4, 4)
                     \/ (i > 0 /\ T(i - 1) = Len(d))
        exits     == {i \in 0..255 : leaves(i)}
        last      == IF exits = {} THEN 256
                     ELSE CHOOSE i \in exits : \A j \in exits : i <= j
        offs(n)   == [k \in 1..n |-> <<T(k - 1), T(k) - 1>>]
    IN  IF last = 256 THEN [status |-> "ok", pcm_offsets |-> offs(256)]
        ELSE IF ~in_buffer(d, last * 4, 4) THEN [status |-> "raised", pcm_offsets |-> <<>>]
        ELSE IF T(last) > Len(d) THEN [status |-> "bad", pcm_offsets |-> <<>>]
        ELSE IF ~in_buffer(d, 4 + last * 4, 4)
             THEN [status |-> "raised", pcm_offsets |-> <<>>]
        ELSE [status |-> "ok", pcm_offsets |-> offs(Max(last - 1, 0))]

\* a P68 slot is decoded when end - start exceeds this
p68_min_extent == 8

extract_p68(d) ==
    LET data_len    == Len(d)
        w           == p68_walk(d)
        pcm_offsets == w.pcm_offsets
        cond(i) == /\ pcm_offsets[i][2] <= data_len
                   /\ pcm_offsets[i][2] - pcm_offsets[i][1] > p68_min_extent
        dec(i)  == OKI_decode(Slice(d, pcm_offsets[i][1], pcm_offsets[i][2] + 1))
    IN  IF data_len < 256 * 4 + 2 THEN bad_data
        ELSE IF w.status = "raised" THEN raised("IndexError")
        ELSE IF w.status = "bad" THEN bad_data
        ELSE slots("P68", Len(pcm_offsets), cond, dec)

\* ------------------------------------------------------------------------
\* pmd2wav.py: extract_pcm and str2type

\* b'ADPCM DATA for  PMD ver.4.4-  '
ppc_header == <<65, 68, 80, 67, 77, 32, 68, 65, 84, 65, 32, 102, 111, 114, 32,
                32, 80, 77, 68, 32, 118, 101, 114, 46, 52, 46, 52, 45, 32, 32>>

\* b'PVI2'
pvi_header == <<80, 86, 73, 50>>

\* b'PCM86 DATA'
p86_header == <<80, 67, 77, 56, 54, 32, 68, 65, 84, 65>>

\* the extension decides when it names a type, the signatures otherwise
detected_type_hint_first(d, extension_type) ==
    IF extension_type # "None" THEN extension_type
    ELSE IF Slice(d, 0, Len(ppc_header)) = ppc_header THEN "PPC"
    ELSE IF Slice(d, 0, Len(pvi_header)) = pvi_header THEN "PVI"
    ELSE IF Slice(d, 0, Len(p86_header)) = p86_header THEN "P86"
    ELSE "None"

\* the type extract_pcm settles on when it is called with type None
detected_type(d, extension_type) ==
    IF Slice(d, 0, Len(ppc_header)) = ppc_header THEN "PPC"
    ELSE IF Slice(d, 0, Len(pvi_header)) = pvi_header THEN "PVI"
    ELSE IF Slice(d, 0, Len(p86_header)) = p86_header THEN "P86"
    ELSE extension_type

\* the dispatch of extract_pcm on the settled type
extract_typed(d, type) ==
    IF type = "PPC" THEN extract_ppc(d)
    ELSE IF type = "PPS" THEN extract_pps(d)
    ELSE IF type = "PVI" THEN extract_pvi(d)
    ELSE IF type = "P86" THEN extract_p86(d)
    ELSE IF type = "P68" THEN extract_p68(d)
    ELSE bad_data

extract_pcm(d, type, extension_type) ==
    extract_typed(d, IF type = "None" THEN detected_type(d, extension_type)
                     ELSE type)

\* s.upper() on ASCII letters
upper(s) == [k \in 1..Len(s) |-> IF s[k] \in 97..122 THEN s[k] - 32 ELSE s[k]]

\* s.replace('.', '')
without_dots(s) == SelectSeq(s, LAMBDA c : c # 46)

str2type(s) ==
    LET u == upper(without_dots(s))
    IN  IF u \in {<<80, 80, 67>>} THEN "PPC"
        ELSE IF u \in {<<80, 80, 83>>} THEN "PPS"
        ELSE IF u \in {<<80, 86, 73>>} THEN "PVI"
        ELSE IF u \in {<<80, 56, 54>>, <<56, 54, 80, 67, 77>>, <<56, 54>>} THEN "P86"
        ELSE IF u \in {<<80>>, <<80, 54, 56>>, <<88, 56, 54>>} THEN "P68"
        ELSE "None"

\* ------------------------------------------------------------------------
\* pdx2wav.py, pdxtract.py: the generic archive parser

\* a slot of the generic archive is decoded when its length exceeds this
pdx_min_length == 1

\* (offset, length) of slot i - 1, read with the bytes in reverse order
pdx_offsets_le(d) ==
    [i \in 1..96 |-> <<get_uint32(d, (i - 1) * 8, FALSE),
                       get_uint32(d, 4 + (i - 1) * 8, FALSE)>>]

\* (offset, length) of slot i - 1
pdx_offsets(d) ==
    [i \in 1..96 |-> <<get_uint32(d, (i - 1) * 8, TRUE),
                       get_uint32(d, 4 + (i - 1) * 8, TRUE)>>]

\* the offsets the table loop reads as 32-bit fields
pdx_reads == {i * 8 : i \in 0..95} \cup {4 + i * 8 : i \in 0..95}

\* PDX(data) of pdx2wav.py: pcm_data, each present slot decoded
PDX(d) ==
    LET filesize    == Len(d)
        pcm_offsets == pdx_offsets(d)
        cond(i) == /\ pcm_offsets[i][2] > pdx_min_length
                   /\ pcm_offsets[i][1] + pcm_offsets[i][2] <= filesize
        dec(i)  == OKI_decode(Slice(d, pcm_offsets[i][1],
                                    pcm_offsets[i][1] + pcm_offsets[i][2]))
    IN  IF \E o \in pdx_reads : ~in_buffer(d, o, 4) THEN raised("IndexError")
        ELSE slots("PDX", 96, cond, dec)

\* PDX(bytes) of pdxtract.py: pcm_data holds the undecoded slice of each
\* present slot
pdxtract_PDX(d) ==
    LET filesize    == Len(d)
        pcm_offsets == pdx_offsets(d)
    IN  IF \E o \in pdx_reads : ~in_buffer(d, o, 4) THEN raised("IndexError")
        ELSE returned("PDX",
                 [i \in 1..96 |->
                     IF /\ pcm_offsets[i][2] > pdx_min_length
                        /\ pcm_offsets[i][1] + pcm_offsets[i][2] <= filesize
                     THEN [present |-> TRUE,
                           pcm |-> Slice(d, pcm_offsets[i][1],
                                         pcm_offsets[i][1] + pcm_offsets[i][2]),
                           name |-> <<>>]
                     ELSE None])

\* ------------------------------------------------------------------------
\* The buffers handed to the archive parsers

MaxPayload == 72      \* bytes of sample data that follow the offset table

\* d with the bytes bs written at offset
put(d, offset, bs) ==
    [k \in 1..Len(d) |->
        IF k > offset /\ k <= offset + Len(bs) THEN bs[k - offset] ELSE d[k]]

\* struct.pack("<H", x), the three low bytes of "<L", and ">L"
u16le(x) == <<x % 256, (x \div 256) % 256>>

u24le(x) == <<x % 256, (x \div 256) % 256, (x \div 65536) % 256>>

u32be(x) == <<(x \div 16777216) % 256, (x \div 65536) % 256,
              (x \div 256) % 256, x % 256>>

\* n bytes of sample data: both nibbles of a byte take every value
payload(n) == [j \in 1..n |-> (j * 37 + 11) % 256]

\* generic archive: 96 (offset, length) pairs, then the sample data;
\* s0 and s95 are the pairs of the first and of the last slot
PDXBuffer(s0, s95, n) ==
    put(put(zeros(768) \o payload(n), 0, u32be(s0[1]) \o u32be(s0[2])),
        95 * 8, u32be(s95[1]) \o u32be(s95[2]))

\* the pairs tried in a slot of a generic archive of size: unused,
\* length 1 and 2, the whole data, ending at the last byte, ending one
\* byte past it, starting past the buffer, and inside the table
PDXPairs(size) ==
    {<<0, 0>>, <<768, 1>>, <<768, 2>>, <<768, size - 768>>,
     <<size - 8, 8>>, <<size - 8, 9>>, <<size + 1, 4>>, <<8, 4>>}

\* the full-table archives, and buffers cut before the end of the table
PDXBuffers ==
    {PDXBuffer(s0, s95, MaxPayload) :
        s0 \in PDXPairs(768 + MaxPayload), s95 \in {<<0, 0>>, <<770, 6>>}}
    \cup {Take(PDXBuffer(<<768, 2>>, <<0, 0>>, MaxPayload), n) : n \in {0, 7, 767}}

\* P86: "PCM86 DATA", the file size at 0x0D, 256 (start, length) pairs of
\* 24 bits from offset 16, then the sample data
P86Buffer(size, s0, s7, n) ==
    put(put(put(put(zeros(1552) \o payload(n), 0, p86_header),
                13, u24le(size)),
            16, u24le(s0[1]) \o u24le(s0[2])),
        16 + 7 * 6, u24le(s7[1]) \o u24le(s7[2]))

\* the pairs tried in a slot of a P86 or PPS archive whose table ends at
\* first and whose size is size: unused; end - start = 0x20 and 0x21; the
\* last byte at size - 1, at size and at size + 1; starting at size and
\* past it
WidePairs(first, size) ==
    {<<0, 0>>, <<first, 33>>, <<first, 34>>, <<size - 34, 34>>,
     <<size - 33, 34>>, <<size - 32, 34>>, <<size, 34>>, <<size + 1, 34>>}

P86Buffers ==
    LET size == 1552 + MaxPayload
    IN  {P86Buffer(size, s0, s7, MaxPayload) :
            s0 \in WidePairs(1552, size), s7 \in {<<1560, 48>>}}
        \cup {P86Buffer(size + 1, <<1552, 34>>, <<0, 0>>, MaxPayload)}
        \cup {Take(P86Buffer(1553, <<0, 0>>, <<0, 0>>, MaxPayload), 1553)}

\* PPS: 14 entries of 6 bytes (start, length, two more bytes), then the
\* sample data
PPSBuffer(s0, s7, n) ==
    put(put(zeros(84) \o payload(n), 0, u16le(s0[1]) \o u16le(s0[2])),
        7 * 6, u16le(s7[1]) \o u16le(s7[2]))

PPSBuffers ==
    LET size == 84 + MaxPayload
    IN  {PPSBuffer(s0, s7, MaxPayload) :
            s0 \in WidePairs(84, size), s7 \in {<<90, 48>>}}
        \cup {Take(PPSBuffer(<<0, 0>>, <<0, 0>>, MaxPayload), 83)}

\* PVI: "PVI2", 128 (start, end) pairs of 16 bits in units of 32 bytes
\* from offset 0x10, then the sample data from 0x210
PVIBuffer(s0, s7, n) ==
    put(put(put(zeros(528) \o payload(n), 0, pvi_header),
            16, u16le(s0[1]) \o u16le(s0[2])),
        16 + 7 * 4, u16le(s7[1]) \o u16le(s7[2]))

\* the pairs tried, in units of 32 bytes: unused, one and two units, the
\* end before the start, and the end past the buffer
UnitPairs == {<<0, 0>>, <<0, 1>>, <<0, 2>>, <<1, 2>>, <<2, 1>>, <<1, 3>>, <<9, 10>>}

PVIBuffers ==
    {PVIBuffer(s0, s7, MaxPayload) : s0 \in UnitPairs, s7 \in {<<1, 2>>}}
    \cup {Take(PVIBuffer(<<0, 1>>, <<0, 0>>, MaxPayload), 527)}

\* PPC: the 30-byte signature, the end of the sample memory (in units of
\* 32 bytes) at offset 30, 256 (start, end) pairs of 16 bits in the same
\* units from offset 0x20, then the sample data from 0x420, which the
\* player loads at unit 0x26 of its sample memory
PPCBuffer(ends, s0, s7, n) ==
    put(put(put(put(zeros(1056) \o payload(n), 0, ppc_header),
                30, u16le(ends)),
            32, u16le(s0[1]) \o u16le(s0[2])),
        32 + 7 * 4, u16le(s7[1]) \o u16le(s7[2]))

PPCBuffers ==
    LET n    == (MaxPayload \div 32) * 32
        ends == 38 + n \div 32
    IN  {PPCBuffer(ends, <<38 + s0[1], 38 + s0[2]>>, s7, n) :
            s0 \in UnitPairs, s7 \in {<<39, 40>>}}
        \cup {PPCBuffer(ends + 1, <<38, 39>>, <<0, 0>>, n)}
        \cup {Take(PPCBuffer(ends, <<38, 39>>, <<0, 0>>, n), 1055)}

\* P68: 256 start offsets of 32 bits, big-endian, each sample ending where
\* the next one starts, then the sample data; t holds the first offsets
P68Buffer(t, n) ==
    put(zeros(1024) \o payload(n), 0, Concat([k \in 1..Len(t) |-> u32be(t[k])]))

\* the tables tried in a P68 archive of size: two samples and the end of
\* the file; no end marker; end - start = 8 and 9; a start past the
\* buffer; the end of the file in the first entry; a start past the
\* buffer behind the end of the file; an empty table
P68Tables(size) ==
    {<<1028, 1048, size>>, <<1028, 1048>>, <<1028, 1037, size>>,
     <<1028, 1038, size>>, <<1028, size + 1, size>>, <<size, 1028>>,
     <<1028, size + 1>>, <<1028, 1048, size, size + 5>>, <<>>}

P68Buffers ==
    {P68Buffer(t, MaxPayload) : t \in P68Tables(1024 + MaxPayload)}
    \cup {zeros(n) : n \in {1025, 1026, 1027, 1028}}

\* a buffer with no signature and no table
PlainBuffers == {payload(MaxPayload), <<>>}


\* ------------------------------------------------------------------------
\* mdxtract.py, pmd2syx.py: the song container parsers

\* bytes.find(sub, start): the lowest offset >= start at which sub occurs,
\* or -1
find(d, sub, start) ==
    LET hits == {k \in start..(Len(d) - Len(sub)) :
                    SubSeq(d, k + 1, k + Len(sub)) = sub}
    IN  IF hits = {} THEN -1 ELSE CHOOSE k \in hits : \A j \in hits : k <= j

\* bytes[a:b] for a >= 0 and any b: a negative b counts from the end
slice(d, a, b) == IF b < 0 THEN Slice(d, a, Max(0, Len(d) + b)) ELSE Slice(d, a, b)

\* b.decode('shiftjis') of single-byte text: a byte below 0x80 is its own
\* character; the text fields of the buffers drawn hold no other byte,
\* and ok = FALSE (UnicodeDecodeError) stands for the bytes that do not
\* decode
decode_shiftjis(b) == [ok |-> \A k \in 1..Len(b) : b[k] < 128, text |-> b]

\* the full records of rlen bytes of blob, in order
records(blob, rlen) ==
    [k \in 1..(Len(blob) \div rlen) |-> SubSeq(blob, (k - 1) * rlen + 1, k * rlen)]

\* the object MDX(bytes) leaves: found says that title is not None,
\* parsed that the attributes channels, voice_data and mml_data exist
MDXObject(found, title, pdxfile, parsed_, channels, voices, mml) ==
    [status |-> "returned", error |-> "", found |-> found, title |-> title,
     pdxfile |-> pdxfile, parsed |-> parsed_, channels |-> channels,
     voice_data |-> voices, mml_data |-> mml]

\* MDX(bytes) does not return
MDXRaised(error) ==
    [status |-> "raised", error |-> error, found |-> FALSE, title |-> <<>>,
     pdxfile |-> <<>>, parsed |-> FALSE, channels |-> 0,
     voice_data |-> <<>>, mml_data |-> <<>>]

MDX(d) ==
    LET title_end  == find(d, <<13, 10>>, 0)
        title      == decode_shiftjis(Slice(d, 0, title_end))
        pdx_start  == title_end + 3
        named      == d[pdx_start + 1] # 0
        data_start == IF named THEN find(d, <<0>>, pdx_start) + 1
                      ELSE pdx_start + 1
        pdxfile    == IF named THEN decode_shiftjis(slice(d, pdx_start, data_start - 1))
                      ELSE [ok |-> TRUE, text |-> <<>>]
        channels   == Shr(get_uint16(d, data_start + 2, TRUE), 1) - 1
        voice_blob == Slice(d, get_uint16(d, data_start, TRUE) + data_start, Len(d))
        mml_offsets ==
            [i \in 1..(Max(channels, 0) + 1) |->
                IF i <= channels
                THEN get_uint16(d, data_start + 2 + (i - 1) * 2, TRUE) + data_start
                ELSE get_uint16(d, data_start, TRUE)]
    IN  IF title_end = -1 \/ title_end > 255
        THEN MDXObject(FALSE, <<>>, <<>>, FALSE, 0, <<>>, <<>>)
        ELSE IF ~title.ok THEN MDXRaised("UnicodeDecodeError")
        ELSE IF ~in_buffer(d, pdx_start, 1) THEN MDXRaised("IndexError")
        ELSE IF ~pdxfile.ok THEN MDXRaised("UnicodeDecodeError")
        ELSE IF ~in_buffer(d, data_start + 2, 2) THEN MDXRaised("IndexError")
        ELSE IF \E i \in 0..(channels - 1) :
                    ~in_buffer(d, data_start + 2 + i * 2, 2)
             THEN MDXRaised("IndexError")
        ELSE MDXObject(TRUE, title.text, pdxfile.text, TRUE, channels,
                 records(voice_blob, 27),
                 [i \in 1..Max(channels, 0) |->
                     Slice(d, mml_offsets[i], mml_offsets[i + 1])])

RECURSIVE pmd_voices(_, _, _)
\* the instrument record loop of PMD(bytes) entered at voice_offset with
\* the records v: the records and the offset it ends with
pmd_voices(d, voice_offset, v) ==
    IF voice_offset + 26 > Len(d) THEN [voice_data |-> v, voice_offset |-> voice_offset]
    ELSE LET next_v   == Append(v, Slice(d, voice_offset, voice_offset + 26))
             next_off == voice_offset + 26
         IN  IF next_off >= Len(d) \/ d[next_off + 1] = 0
             THEN [voice_data |-> next_v, voice_offset |-> next_off]
             ELSE pmd_voices(d, next_off, next_v)

RECURSIVE split(_, _)
\* b.split(sep) for a one-byte separator
split(b, sep) ==
    LET k == find(b, <<sep>>, 0)
    IN  IF k = -1 THEN <<b>>
        ELSE <<Slice(b, 0, k)>> \o split(Slice(b, k + 1, Len(b)), sep)

\* the value of a meta_data key: None, or the decoded text
NoText == [set |-> FALSE, text |-> <<>>]

\* the object PMD(bytes) leaves; meta_data lists the values of ppz_file,
\* pps_file, pcm_file, title, composer, arranger, memo1, memo2 and is
\* empty while the dict is
PMDObject(valid, voices, meta) ==
    [status |-> "returned", error |-> "", valid |-> valid,
     voice_data |-> voices, meta_data |-> meta]

\* PMD(bytes) does not return
PMDRaised(error) ==
    [status |-> "raised", error |-> error, valid |-> FALSE,
     voice_data |-> <<>>, meta_data |-> <<>>]

PMD(d) ==
    LET data_offsets == [i \in 1..12 |-> get_uint16(d, 2 + (i - 1) * 2, TRUE)]
        w            == pmd_voices(d, data_offsets[12] + 1, <<>>)
        meta_offset  == w.voice_offset + 1
        meta_bin     == split(Slice(d, meta_offset + 1, Len(d)), 0)
        meta_value(i) ==
            IF i > Len(meta_bin) THEN NoText
            ELSE LET dec == decode_shiftjis(meta_bin[i])
                 IN  IF dec.ok /\ Len(dec.text) > 0
                     THEN [set |-> TRUE, text |-> dec.text] ELSE NoText
    IN  IF ~in_buffer(d, 1, 1) THEN PMDRaised("IndexError")
        ELSE IF d[1 + 1] # 26 THEN PMDObject(FALSE, <<>>, <<>>)
        ELSE IF \E i \in 0..11 : ~in_buffer(d, 2 + i * 2, 2)
             THEN PMDRaised("IndexError")
        ELSE IF meta_offset + 1 >= Len(d) \/ d[meta_offset + 1] # 255
             THEN PMDObject(TRUE, w.voice_data, [i \in 1..8 |-> NoText])
        ELSE PMDObject(TRUE, w.voice_data, [i \in 1..8 |-> meta_value(i)])

\* file name extensions str2type is applied to: none, ".ppc", ".PPS",
\* ".pvi", ".P86", ".p", ".x86", ".wav"
Extensions ==
    {<<>>, <<46, 112, 112, 99>>, <<46, 80, 80, 83>>, <<46, 112, 118, 105>>,
     <<46, 80, 56, 54>>, <<46, 112>>, <<46, 120, 56, 54>>, <<46, 119, 97, 118>>}

\* the values of the --type option: absent, or one str2type produces
TypeArguments == {"None", "PPC", "PPS", "PVI", "P86", "P68"}

\* the calls extract_pcm(data, type, extension_type) of main: without
\* --type and the type of any extension, or with --type; the 16-bit
\* fields of a PPS table are not read as the 32-bit fields of P68
ExtractCalls ==
    LET hints == {str2type(e) : e \in Extensions}
        calls(bufs, types) ==
            {<<b, "None", h>> : b \in bufs, h \in hints \cap (types \cup {"None"})}
            \cup {<<b, t, "None">> : b \in bufs, t \in types}
    IN  calls(PPCBuffers \cup PVIBuffers \cup P86Buffers \cup P68Buffers
              \cup PlainBuffers, TypeArguments \ {"None"})
        \cup calls(PPSBuffers, {"PPC", "PPS", "PVI", "P86"})

\* "TITLE", "A.PDX"
SongTitle == <<84, 73, 84, 76, 69>>

PDXName == <<65, 46, 80, 68, 88>>

\* big-endian 16-bit words
u16be(x) == <<(x \div 256) % 256, x % 256>>

\* a song container: the title, CR LF, 0x1A, the name of the sample
\* archive and its NUL, the offset of the instrument records, the
\* offsets of nch channels (all relative to the first of these words),
\* two bytes of data for each channel, nvoices records of 27 bytes
MDXBuffer(title, pdxname, nch, nvoices) ==
    LET table == 2 * (nch + 1)
    IN  title \o <<13, 10, 26>> \o pdxname \o <<0>>
        \o u16be(table + 2 * nch)
        \o Concat([i \in 1..nch |-> u16be(table + 2 * (i - 1))])
        \o Concat([i \in 1..nch |-> <<128 + i, 241>>])
        \o Concat([k \in 1..nvoices |-> VoiceRecord("mdxtract", k)])

\* whole files, files cut inside the header, the offset table or a
\* record, and files without a line break in the first 256 bytes
MDXBuffers ==
    {MDXBuffer(SongTitle, nm, 2, nv) : nm \in {<<>>, PDXName}, nv \in {0, 1, 3}}
    \cup {Take(MDXBuffer(SongTitle, PDXName, 2, 2), n) :
            n \in {0, 5, 7, 8, 10, 15, 16, 17, 19, 50}}
    \cup {SongTitle, zeros(300) \o <<13, 10, 26, 0, 0, 6, 0, 4, 0, 0>>}

\* a song of the alternate dialect: 0x1A at offset 1, twelve offsets of
\* which the last, plus one, is the offset of the instrument records,
\* nvoices records of 26 bytes, the zero sentinel, and the text fields
\* behind a 0xFF marker when meta is not empty
PMDBuffer(marker, nvoices, meta) ==
    <<0, marker>> \o zeros(22) \o u16be(25)
    \o Concat([k \in 1..nvoices |-> VoiceRecord("pmd2syx", k)])
    \o <<0>> \o (IF Len(meta) > 0 THEN <<255>> \o meta ELSE <<>>)

\* "T" NUL NUL NUL "SONG" NUL "AB" NUL
PMDMeta == <<84, 0, 0, 0, 83, 79, 78, 71, 0, 65, 66, 0>>

\* NUL NUL NUL "A SONG WITHOUT FM VOICES" NUL: with the sentinel and the
\* marker, more bytes than one instrument record
PMDMetaLong ==
    <<0, 0, 0, 65, 32, 83, 79, 78, 71, 32, 87, 73, 84, 72, 79, 85, 84, 32,
      70, 77, 32, 86, 79, 73, 67, 69, 83, 0>>

PMDBuffers ==
    {PMDBuffer(26, nv, m) : nv \in {0, 1, 3}, m \in {<<>>, PMDMeta}}
    \cup {PMDBuffer(26, nv, PMDMetaLong) : nv \in {0, 2}}
    \cup {PMDBuffer(27, 1, <<>>)}
    \cup {Take(PMDBuffer(26, 2, PMDMeta), n) : n \in {0, 1, 2, 3, 25, 26, 51, 52, 78}}

\* ------------------------------------------------------------------------
\* SpecParse: one call of a parser on one buffer

InitParse ==
    /\ IdleTool /\ IdleVoice /\ IdleSysex /\ IdleCodec /\ IdleBatch
    /\ IdleUtil /\ IdleEquiv
    /\ pc = "call"
    /\ parsed = NoParsed
    /\ \/ /\ parser \in {"PDX", "pdxtract.PDX"}
          /\ indata \in PDXBuffers
          /\ argtype = "None" /\ exttype = "None"
       \/ /\ parser = "extract_pcm"
          /\ \E c \in ExtractCalls :
                indata = c[1] /\ argtype = c[2] /\ exttype = c[3]
       \/ /\ parser = "MDX"
          /\ indata \in MDXBuffers
          /\ argtype = "None" /\ exttype = "None"
       \/ /\ parser = "PMD"
          /\ indata \in PMDBuffers
          /\ argtype = "None" /\ exttype = "None"

\* pdx = PDX(bytearray(infile.read())) in pdx2wav.py
ParsePDX ==
    /\ pc = "call" /\ parser = "PDX"
    /\ parsed' = PDX(indata)
    /\ pc' = parsed'.status
    /\ UNCHANGED <<parser, indata, argtype, exttype>>
    /\ UNCHANGED <<toolVars, voiceVars, sysexVars, codecVars, batchVars,
                   utilVars, equivVars>>

\* pdx = PDX(bytearray(infile.read())) in pdxtract.py
ParsePDXtract ==
    /\ pc = "call" /\ parser = "pdxtract.PDX"
    /\ parsed' = pdxtract_PDX(indata)
    /\ pc' = parsed'.status
    /\ UNCHANGED <<parser, indata, argtype, exttype>>
    /\ UNCHANGED <<toolVars, voiceVars, sysexVars, codecVars, batchVars,
                   utilVars, equivVars>>

\* extract_pcm, if type is None: the signatures, then the extension
DetectType ==
    /\ pc = "call" /\ parser = "extract_pcm"
    /\ argtype = "None"
    /\ argtype' = detected_type(indata, exttype)
    /\ pc' = "detected"
    /\ UNCHANGED <<parser, indata, exttype, parsed>>
    /\ UNCHANGED <<toolVars, voiceVars, sysexVars, codecVars, batchVars,
                   utilVars, equivVars>>

\* the extractor extract_pcm hands the buffer to for a type
extractor_of(type) ==
    IF type \in {"PPC", "PPS", "PVI", "P86", "P68"}
    THEN [PPC |-> "extract_ppc", PPS |-> "extract_pps", PVI |-> "extract_pvi",
          P86 |-> "extract_p86", P68 |-> "extract_p68"][type]
    ELSE "bad_data"

\* extract_pcm, the dispatch on the type: the extractor runs and its
\* result is returned
ExtractTyped ==
    /\ parser = "extract_pcm"
    /\ \/ pc = "call" /\ argtype # "None"
       \/ pc = "detected"
    /\ parsed' = extract_typed(indata, argtype)
    /\ parser' = extractor_of(argtype)
    /\ pc' = parsed'.status
    /\ UNCHANGED <<indata, argtype, exttype>>
    /\ UNCHANGED <<toolVars, voiceVars, sysexVars, codecVars, batchVars,
                   utilVars, equivVars>>

\* mdx = MDX(bytearray(infile.read()))
ParseMDX ==
    /\ pc = "call" /\ parser = "MDX"
    /\ parsed' = MDX(indata)
    /\ pc' = parsed'.status
    /\ UNCHANGED <<parser, indata, argtype, exttype>>
    /\ UNCHANGED <<toolVars, voiceVars, sysexVars, codecVars, batchVars,
                   utilVars, equivVars>>

\* pmd = PMD(bytearray(infile.read()))
ParsePMD ==
    /\ pc = "call" /\ parser = "PMD"
    /\ parsed' = PMD(indata)
    /\ pc' = parsed'.status
    /\ UNCHANGED <<parser, indata, argtype, exttype>>
    /\ UNCHANGED <<toolVars, voiceVars, sysexVars, codecVars, batchVars,
                   utilVars, equivVars>>

NextParse ==
    ParsePDX \/ ParsePDXtract \/ DetectType \/ ExtractTyped \/ ParseMDX \/ ParsePMD

SpecParse == InitParse /\ [][NextParse]_vars

\* ------------------------------------------------------------------------
\* Properties of the parsers (SpecParse)

\* the 32-bit value whose bytes, most significant first, are at offsets
\* o .. o + 3 of the buffer
BE32(o) ==
    indata[o + 1] * 16777216 + indata[o + 2] * 65536
    + indata[o + 3] * 256 + indata[o + 4]

\* "{:03}" of a slot index
ThreeDigits(i) == <<48 + (i \div 100), 48 + ((i \div 10) % 10), 48 + (i % 10)>>

GenericParser == parser \in {"PDX", "pdxtract.PDX"}

TypedExtractor ==
    parser \in {"extract_ppc", "extract_pps", "extract_pvi", "extract_p86",
                "extract_p68"}

\* C12: for a generic archive buffer that holds the whole table the
\* parser returns 96 entries in slot order; entry i is present iff
\* length_i > 1 and offset_i + length_i <= buffer length, the two values
\* read big-endian at bytes 8i and 8i + 4; an absent slot is a placeholder
\* at index i, so a present slot keeps its index (and its bytes)
C12_GenericTable ==
    (GenericParser /\ pc # "call" /\ Len(indata) >= 768) =>
        /\ pc = "returned"
        /\ Len(parsed.pcm_data) = 96
        /\ \A i \in 0..95 :
              LET offset == BE32(8 * i)
                  length == BE32(8 * i + 4)
                  e      == parsed.pcm_data[i + 1]
              IN  /\ e.present <=> (length > 1 /\ offset + length <= Len(indata))
                  /\ ~e.present => e = None
                  /\ (e.present /\ parser = "PDX") =>
                        /\ e.name = ThreeDigits(i)
                        /\ Len(e.pcm) = 4 * length
                  /\ (e.present /\ parser = "pdxtract.PDX") =>
                        e.pcm = SubSeq(indata, offset + 1, offset + length)

\* slot 0 points past the buffer and is a placeholder, the last slot is
\* present under its own index 95
C12_Witness ==
    /\ pc = "returned" /\ parser = "PDX"
    /\ BE32(0) > Len(indata)
    /\ parsed.pcm_data[1] = None
    /\ parsed.pcm_data[96].present
    /\ parsed.pcm_data[96].name = <<48, 57, 53>>

\* (start, end) of the slots of a typed archive, as its extractor reads them
SlotOffsets ==
    IF parser = "extract_ppc" THEN ppc_offsets(indata)
    ELSE IF parser = "extract_pps" THEN pps_offsets(indata)
    ELSE IF parser = "extract_pvi" THEN pvi_offsets(indata)
    ELSE IF parser = "extract_p86" THEN p86_offsets(indata)
    ELSE p68_walk(indata).pcm_offsets

\* end - start of slot i (from 1)
SlotExtent(i) == SlotOffsets[i][2] - SlotOffsets[i][1]

\* the minimum the claim states for each variant
StatedThreshold ==
    IF parser \in {"extract_ppc", "extract_pvi", "extract_p68"} THEN 8 ELSE 32

\* the extractor returned a slot list, not the failure indicator
SlotList ==
    /\ pc = "returned"
    /\ GenericParser \/ TypedExtractor
    /\ parsed.type # "False"

\* C13: a slot of length exactly 1 (generic archive), or of extent
\* end - start exactly 8 (PPC, PVI, P68) or 0x20 (PPS, P86), is absent
\* and was not decoded; a present slot is strictly larger
C13_ThresholdAbsent ==
    SlotList =>
        /\ GenericParser =>
              \A i \in 0..95 :
                  /\ BE32(8 * i + 4) = 1 => parsed.pcm_data[i + 1] = None
                  /\ parsed.pcm_data[i + 1].present => BE32(8 * i + 4) > 1
        /\ TypedExtractor =>
              \A i \in 1..Len(parsed.pcm_data) :
                  /\ SlotExtent(i) = StatedThreshold => parsed.pcm_data[i] = None
                  /\ parsed.pcm_data[i].present => SlotExtent(i) > StatedThreshold

\* a P86 archive whose slot 0 has end - start = 0x20 and is absent while
\* slot 7 is present
C13_Witness ==
    /\ pc = "returned" /\ parser = "extract_p86"
    /\ parsed.type = "P86"
    /\ SlotExtent(1) = 32
    /\ parsed.pcm_data[1] = None
    /\ parsed.pcm_data[8].present

\* the buffer starts with the bytes sig
HasPrefix(sig) == Len(indata) >= Len(sig) /\ SubSeq(indata, 1, Len(sig)) = sig

\* the type the claim states for a call without an explicit type
StatedType ==
    IF HasPrefix(ppc_header) THEN "PPC"
    ELSE IF HasPrefix(pvi_header) THEN "PVI"
    ELSE IF HasPrefix(p86_header) THEN "P86"
    ELSE exttype

\* the extractor that has to run for the stated type
StatedExtractor ==
    IF StatedType = "PPC" THEN "extract_ppc"
    ELSE IF StatedType = "PPS" THEN "extract_pps"
    ELSE IF StatedType = "PVI" THEN "extract_pvi"
    ELSE IF StatedType = "P86" THEN "extract_p86"
    ELSE IF StatedType = "P68" THEN "extract_p68"
    ELSE "none of them"

FileChecksPass ==
    IF parser = "extract_ppc"
    THEN /\ Len(indata) >= 1056
         /\ 1216 + (Len(indata) - 1056) = 32 * (indata[31] + 256 * indata[32])
    ELSE IF parser = "extract_pps" THEN Len(indata) >= 84
    ELSE IF parser = "extract_pvi" THEN Len(indata) >= 528
    ELSE IF parser = "extract_p86"
    THEN /\ Len(indata) >= 1554
         /\ Len(indata) = indata[14] + 256 * indata[15] + 65536 * indata[16]
    ELSE Len(indata) >= 1026

\* slot i (from 1) of a PPS or P86 table lies inside the buffer and is
\* larger than the minimum
WideSlotValid(i) ==
    /\ SlotOffsets[i][1] > 0
    /\ SlotOffsets[i][2] < Len(indata)
    /\ SlotExtent(i) > 32

\* C15: one slot whose pair would read outside the buffer makes only
\* that slot absent: the file is not rejected, and every valid slot of
\* the same file is extracted
C15_OnlyThatSlotAbsent ==
    (pc = "returned" /\ TypedExtractor /\ FileChecksPass) =>
        /\ parsed.type # "False"
        /\ parser \in {"extract_pps", "extract_p86"} =>
              \A i \in 1..Len(SlotOffsets) :
                  WideSlotValid(i) =>
                      /\ i <= Len(parsed.pcm_data)
                      /\ parsed.pcm_data[i].present

\* first and last (inclusive) byte index of the range the extractor
\* takes for slot i (from 1), and the length of the buffer it is taken from
RangeFirst(i) ==
    IF GenericParser THEN BE32(8 * (i - 1)) ELSE SlotOffsets[i][1]

RangeLast(i) ==
    IF GenericParser THEN BE32(8 * (i - 1)) + BE32(8 * (i - 1) + 4) - 1
    ELSE IF parser \in {"extract_ppc", "extract_pvi"} THEN SlotOffsets[i][2] - 1
    ELSE SlotOffsets[i][2]

RangeBuffer ==
    IF parser = "extract_ppc" THEN 1216 + (Len(indata) - 1056) ELSE Len(indata)

\* bytes of output per byte handed to the codec: two 16-bit samples for
\* the 4-bit codecs, one for 8-bit PCM, the byte itself where the slot is
\* kept undecoded
OutputPerByte ==
    IF parser = "pdxtract.PDX" THEN 1 ELSE IF parser = "extract_p86" THEN 2 ELSE 4

\* C16: every slot reported present has its whole byte range inside the
\* buffer (first index >= 0, last index < buffer length), and the codec
\* was handed as many bytes as the range holds
C16_RangeInsideBuffer ==
    SlotList =>
        \A i \in 1..Len(parsed.pcm_data) :
            parsed.pcm_data[i].present =>
                /\ RangeFirst(i) >= 0
                /\ RangeLast(i) < RangeBuffer
                /\ Len(parsed.pcm_data[i].pcm)
                      = OutputPerByte * (RangeLast(i) - RangeFirst(i) + 1)

\* C17: none of the five typed extractors reads a table field past the
\* end of the buffer: each returns the failure indicator or a slot list
C17_TableReadsCovered ==
    TypedExtractor =>
        /\ pc = "returned"
        /\ parsed.status = "returned"

\* C18: the generic archive parser and the two song parsers return a
\* failure indicator or a list for every buffer, also one shorter than
\* the tables it should hold; none fails reading past the end
C18_ShortBuffers ==
    (parser \in {"PDX", "pdxtract.PDX", "MDX", "PMD"} /\ pc # "call") =>
        /\ pc = "returned"
        /\ parsed.error # "IndexError"


\* ------------------------------------------------------------------------
\* SpecBatch: main() of each tool over the input files of one command line

MaxFiles == 2         \* most input files on one command line

BatchTools == {"mdxtract", "pmd2syx", "pmd2wav", "pdx2wav", "pdxtract"}

\* an input file: what read() returns, the extension of its name, whether
\* open(path, "rb") succeeds and whether open(outpath, "wb") next to it does
File(content, ext, readable, writable) ==
    [content |-> content, ext |-> ext, readable |-> readable,
     writable |-> writable]

\* a file the tool converts
ValidContent(t) ==
    IF t = "mdxtract" THEN MDXBuffer(SongTitle, PDXName, 2, 1)
    ELSE IF t = "pmd2syx" THEN PMDBuffer(26, 1, <<>>)
    ELSE IF t = "pmd2wav" THEN PVIBuffer(<<0, 0>>, <<1, 2>>, MaxPayload)
    ELSE PDXBuffer(<<768, 2>>, <<770, 6>>, MaxPayload)

\* files that fail the validation of the header or signature: no line
\* break, no 0x1A at offset 1, no signature under the extension ".wav";
\* the archive tools for the generic format have no such validation
UnrecognizedContents(t) ==
    IF t = "mdxtract" THEN {SongTitle}
    ELSE IF t = "pmd2syx" THEN {PMDBuffer(27, 1, <<>>)}
    ELSE IF t = "pmd2wav" THEN {payload(MaxPayload)}
    ELSE {}

\* ".pvi", ".wav"
pvi_ext == <<46, 112, 118, 105>>

wav_ext == <<46, 119, 97, 118>>

\* the files a command line of tool t is made of
InputFiles(t) ==
    {File(ValidContent(t), pvi_ext, r, w) :
        r \in BOOLEAN, w \in BOOLEAN}
    \cup {File(c, wav_ext, TRUE, TRUE) : c \in UnrecognizedContents(t)}

\* the state when the for loop over arguments.infiles is entered
InitBatch ==
    /\ IdleVoice /\ IdleSysex /\ IdleCodec
    /\ tool \in BatchTools
    /\ basepath = <<>> /\ basename = <<>>
    /\ voice_data = <<>> /\ opmvoices = <<>> /\ batch = 0 /\ outfiles = <<>>
    /\ \E n \in 1..MaxFiles : infiles \in [1..n -> InputFiles(tool)]
    /\ fileno = 0 /\ outcome = <<>> /\ written = {} /\ errors = <<>>
    /\ parser = "none" /\ indata = <<>> /\ argtype = "None" /\ exttype = "None"
    /\ parsed = NoParsed
    /\ IdleUtil /\ IdleEquiv
    /\ pc = "loop"

\* the file of the current iteration
path == infiles[fileno + 1]

\* with open(path, "rb") as infile: ... infile.read(); pmd2wav takes the
\* type hint from the extension
OpenInput ==
    /\ pc = "loop" /\ fileno < Len(infiles)
    /\ path.readable
    /\ indata' = path.content
    /\ exttype' = IF tool = "pmd2wav" THEN str2type(path.ext) ELSE "None"
    /\ parsed' = NoParsed
    /\ parser' = "none"
    /\ pc' = "opened"
    /\ UNCHANGED <<argtype, batchVars>>
    /\ UNCHANGED <<toolVars, voiceVars, sysexVars, codecVars,
                   utilVars, equivVars>>

\* open(path, "rb") raises IOError: the except clause around the loop
\* prints it and main returns
OpenFails ==
    /\ pc = "loop" /\ fileno < Len(infiles)
    /\ ~path.readable
    /\ errors' = Append(errors, fileno + 1)
    /\ outcome' = Append(outcome, "failed")
    /\ pc' = "done"
    /\ UNCHANGED <<infiles, fileno, written, parseVars>>
    /\ UNCHANGED <<toolVars, voiceVars, sysexVars, codecVars,
                   utilVars, equivVars>>

\* the parser each main calls on the bytes read
parser_of(t) ==
    IF t = "mdxtract" THEN "MDX"
    ELSE IF t = "pmd2syx" THEN "PMD"
    ELSE IF t = "pmd2wav" THEN "extract_pcm"
    ELSE IF t = "pdx2wav" THEN "PDX"
    ELSE "pdxtract.PDX"

parse(t, d, type, extension_type) ==
    IF t = "mdxtract" THEN MDX(d)
    ELSE IF t = "pmd2syx" THEN PMD(d)
    ELSE IF t = "pmd2wav" THEN extract_pcm(d, type, extension_type)
    ELSE IF t = "pdx2wav" THEN PDX(d)
    ELSE pdxtract_PDX(d)

\* mdx = MDX(...), pmd = PMD(...), type, pcm_data = extract_pcm(...),
\* pdx = PDX(...); an exception of the parser is not an IOError and
\* leaves main
ParseInput ==
    /\ pc = "opened"
    /\ parser' = parser_of(tool)
    /\ parsed' = parse(tool, indata, argtype, exttype)
    /\ pc' = IF parsed'.status = "raised" THEN "crashed" ELSE "parsed"
    /\ UNCHANGED <<indata, argtype, exttype, batchVars>>
    /\ UNCHANGED <<toolVars, voiceVars, sysexVars, codecVars,
                   utilVars, equivVars>>

\* pmd2syx: if pmd.valid is False or len(pmd.voice_data) == 0;
\* pmd2wav: if type is None or len(pcm_data) == 0
not_recognized(t, p) ==
    IF t = "pmd2syx" THEN ~p.valid \/ Len(p.voice_data) = 0
    ELSE IF t = "pmd2wav" THEN p.type = "None" \/ Len(p.pcm_data) = 0
    ELSE FALSE

\* mdxtract reads mdx.voice_data, which MDX sets only after the title
\* has been found
attributes_exist(t, p) == t = "mdxtract" => p.parsed

\* the files the iteration writes for input number i: one per batch of
\* 32 voices, or one per present slot
outpaths(t, p, i) ==
    IF t \in {"mdxtract", "pmd2syx"}
    THEN {<<i, b>> : b \in 1..NBatches(Len(p.voice_data))}
    ELSE {<<i, k>> : k \in {s \in 1..Len(p.pcm_data) : p.pcm_data[s].present}}

\* print("File '{}' not recognized ..."); continue
SkipInput ==
    /\ pc = "parsed"
    /\ not_recognized(tool, parsed)
    /\ outcome' = Append(outcome, "skipped")
    /\ fileno' = fileno + 1
    /\ pc' = "loop"
    /\ UNCHANGED <<infiles, written, errors, parseVars>>
    /\ UNCHANGED <<toolVars, voiceVars, sysexVars, codecVars,
                   utilVars, equivVars>>

\* for i, vd in enumerate(mdx.voice_data) on an object without that
\* attribute: AttributeError, which no except clause catches
MissingAttribute ==
    /\ pc = "parsed"
    /\ ~not_recognized(tool, parsed)
    /\ ~attributes_exist(tool, parsed)
    /\ outcome' = Append(outcome, "crashed")
    /\ pc' = "crashed"
    /\ UNCHANGED <<infiles, fileno, written, errors, parseVars>>
    /\ UNCHANGED <<toolVars, voiceVars, sysexVars, codecVars,
                   utilVars, equivVars>>

\* the rest of the iteration: every output file is converted and written
ConvertInput ==
    /\ pc = "parsed"
    /\ ~not_recognized(tool, parsed)
    /\ attributes_exist(tool, parsed)
    /\ path.writable \/ outpaths(tool, parsed, fileno + 1) = {}
    /\ written' = written \cup outpaths(tool, parsed, fileno + 1)
    /\ outcome' = Append(outcome, "converted")
    /\ fileno' = fileno + 1
    /\ pc' = "loop"
    /\ UNCHANGED <<infiles, errors, parseVars>>
    /\ UNCHANGED <<toolVars, voiceVars, sysexVars, codecVars,
                   utilVars, equivVars>>

\* open(outpath, "wb") of the first output raises IOError: the except
\* clause around the loop prints it and main returns
WriteFails ==
    /\ pc = "parsed"
    /\ ~not_recognized(tool, parsed)
    /\ attributes_exist(tool, parsed)
    /\ ~path.writable /\ outpaths(tool, parsed, fileno + 1) # {}
    /\ errors' = Append(errors, fileno + 1)
    /\ outcome' = Append(outcome, "failed")
    /\ pc' = "done"
    /\ UNCHANGED <<infiles, fileno, written, parseVars>>
    /\ UNCHANGED <<toolVars, voiceVars, sysexVars, codecVars,
                   utilVars, equivVars>>

\* the loop is exhausted
EndOfBatch ==
    /\ pc = "loop" /\ fileno = Len(infiles)
    /\ pc' = "done"
    /\ UNCHANGED <<batchVars, parseVars>>
    /\ UNCHANGED <<toolVars, voiceVars, sysexVars, codecVars,
                   utilVars, equivVars>>

NextBatch ==
    \/ OpenInput \/ OpenFails \/ ParseInput \/ SkipInput \/ MissingAttribute
    \/ ConvertInput \/ WriteFails \/ EndOfBatch

SpecBatch == InitBatch /\ [][NextBatch]_vars

\* ------------------------------------------------------------------------
\* Properties of the batch loop (SpecBatch)

\* main has ended, by returning or with an exception
Terminated == pc \in {"done", "crashed"}

\* the iteration of input file j ran to its end
Processed(j) == j <= Len(outcome) /\ outcome[j] \in {"converted", "skipped"}

\* input file i fails the validation the claim names: a song without
\* CR LF starting in its first 256 bytes, an alternate-dialect song
\* without 0x1A at offset 1, an archive with neither a signature nor an
\* extension that names a type
FailsValidation(i) ==
    LET d == infiles[i].content
    IN  IF tool = "mdxtract"
        THEN ~\E k \in 1..Min(256, Len(d) - 1) : d[k] = 13 /\ d[k + 1] = 10
        ELSE IF tool = "pmd2syx" THEN Len(d) < 2 \/ d[2] # 26
        ELSE IF tool = "pmd2wav"
        THEN /\ \A sig \in {ppc_header, pvi_header, p86_header} :
                    Take(d, Len(sig)) # sig
             /\ infiles[i].ext \notin
                    {<<46>> \o e : e \in {<<112, 112, 99>>, <<112, 112, 115>>,
                                          <<112, 118, 105>>, <<112, 56, 54>>,
                                          <<112, 54, 56>>}}
        ELSE FALSE

\* C19: when no I/O failure occurs in a batch, a file whose header or
\* signature validation fails gets no output and every later file of
\* the batch is still processed
C19_UnrecognizedSkipped ==
    (Terminated /\ errors = <<>>) =>
        \A i \in 1..Len(infiles) :
            FailsValidation(i) =>
                /\ \A w \in written : w[1] # i
                /\ \A j \in (i + 1)..Len(infiles) : Processed(j)

\* C20: when opening or writing a file of the batch raised an I/O failure,
\* the failure is reported, and every later input file is still processed
C20_IOFailureLocal ==
    (Terminated /\ errors # <<>>) =>
        \A k \in 1..Len(errors) :
            /\ outcome[errors[k]] = "failed"
            /\ \A j \in (errors[k] + 1)..Len(infiles) : Processed(j)


\* ------------------------------------------------------------------------
\* Properties of the operator order (SpecVoice)

\* the target operator the claim gives the conversion of bias slot s:
\* OP6, OP5, OP4, OP3 hold slots 0, 1, 2, 3, except for algorithm 2,
\* where OP6, OP5, OP4 hold slots 1, 2, 0
RotatedTarget(con, s) ==
    IF con = 2
    THEN (IF s = 1 THEN "OP6" ELSE IF s = 2 THEN "OP5"
          ELSE IF s = 0 THEN "OP4" ELSE "OP3")
    ELSE (IF s = 0 THEN "OP6" ELSE IF s = 1 THEN "OP5"
          ELSE IF s = 2 THEN "OP4" ELSE "OP3")

\* C25: in a converted voice OP6, OP5, OP4, OP3 are the conversions of
\* OPM1, OPC1, OPM2, OPC2 with the bias of slots 0, 1, 2, 3; for
\* algorithm 2 OP6, OP5, OP4 are the conversions of OPC1, OPM2, OPM1,
\* each with the bias of its own slot, and OP3 still that of OPC2
C25_OperatorOrder ==
    Converted =>
        \A s \in 0..3 :
            dx7v[RotatedTarget(opmv.CON, s)]
                = OPMOP_to_DX7OP(SlotOP(opmv, s), opmv,
                                 tl_adjustment[opmv.CON + 1][s + 1])

\* a voice of algorithm 2 has been converted; its three first source
\* operators convert to three different target operators, and OP6 is
\* the conversion of OPC1
C25_Witness ==
    /\ pc = "dx7"
    /\ opmv.CON = 2
    /\ dx7v.OP6 = OPMOP_to_DX7OP(opmv.OPC1, opmv, -8)
    /\ dx7v.OP6 # OPMOP_to_DX7OP(opmv.OPM1, opmv, -8)
    /\ dx7v.OP5 # dx7v.OP6 /\ dx7v.OP4 # dx7v.OP5 /\ dx7v.OP4 # dx7v.OP6

\* position of a target operator in the packed record: OP6 first
PackedIndex(name) ==
    IF name = "OP6" THEN 0 ELSE IF name = "OP5" THEN 1
    ELSE IF name = "OP4" THEN 2 ELSE 3

\* C29: for every algorithm the packed output level (offset 14 of the
\* 17 bytes of an operator) of the target operator converted from bias
\* slot s = 0..3 (OPM1, OPC1, OPM2, OPC2) is 0 exactly when bit s of the
\* source SLOT mask is clear, and the converted output level otherwise
C29_MaskFollowsSource ==
    (pc = "packed" /\ packed.ok) =>
        \A s \in 0..3 :
            LET name == RotatedTarget(opmv.CON, s)
                ol   == packed.bytes[17 * PackedIndex(name) + 14 + 1]
            IN  ol = IF (opmv.SLOT \div (2 ^ s)) % 2 = 0 THEN 0
                     ELSE dx7v[name].OL % 128

\* ------------------------------------------------------------------------
\* Properties of the argument of sysex_from_DX7Voices (SpecSysex)

\* C28: sysex_from_DX7Voices has no effect on its argument: after the
\* call the caller's list has the length and the elements it had before
C28_ArgumentUnchanged ==
    pc # "call" => dx7voices = given

\* ------------------------------------------------------------------------
\* Properties of the extracted source operators (Spec)

\* the fields of a source operator are within their declared bit widths
WithinDeclaredWidths(op) ==
    /\ op.TL \in 0..127
    /\ op.AR \in 0..31 /\ op.D1R \in 0..31 /\ op.D2R \in 0..31
    /\ op.D1L \in 0..15 /\ op.RR \in 0..15 /\ op.MUL \in 0..15
    /\ op.DT1 \in 0..7
    /\ op.KS \in 0..3 /\ op.DT2 \in 0..3
    /\ op.AME \in 0..1

\* C23: every field of every source operator extracted from an
\* instrument record (27 bytes in the song container, 26 in the alternate
\* dialect) lies within its declared bit width
C23_OperatorFieldWidths ==
    \A k \in 1..Len(opmvoices) :
        /\ WithinDeclaredWidths(opmvoices[k].OPM1)
        /\ WithinDeclaredWidths(opmvoices[k].OPC1)
        /\ WithinDeclaredWidths(opmvoices[k].OPM2)
        /\ WithinDeclaredWidths(opmvoices[k].OPC2)

\* ------------------------------------------------------------------------
\* common.py: gain and DC offset, WAV writer

\* struct.unpack("<h", bytes)[0] of the two bytes lo, hi
unpack_h(lo, hi) ==
    LET u == lo + 256 * hi IN IF u >= 32768 THEN u - 65536 ELSE u

\* the samples of a buffer of even length
pcm_samples(pcm) ==
    [i \in 1..(Len(pcm) \div 2) |-> unpack_h(pcm[2 * i - 1], pcm[2 * i])]

dc_bias_per_byte(summ, count) == summ \div (2 * count)

\* dc_bias = summ // (len(pcm) // 2)
dc_bias(summ, count) == summ \div count

\* pcm_adjust(pcm, gain, fix_dc_offset) for the gain g[1] / g[2], g[2] > 0:
\* ok = FALSE when the call raises (ZeroDivisionError for a buffer
\* without samples), otherwise pcm is the returned buffer
pcm_adjust(pcm, g, fix) ==
    IF Len(pcm) % 2 = 1 THEN [ok |-> TRUE, pcm |-> pcm]
    ELSE LET val   == pcm_samples(pcm)
             count == Len(val)
         IN  IF fix /\ count = 0 THEN [ok |-> FALSE, pcm |-> <<>>]
             ELSE LET bias == IF fix THEN dc_bias(SumSeq(val), count) ELSE 0
                      out  == [i \in 1..count |->
                                 clip_int16((val[i] - bias) * g[1], g[2])]
                  IN  [ok |-> TRUE,
                       pcm |-> [k \in 1..(2 * count) |->
                                  pack_h(out[(k + 1) \div 2]).bytes[2 - (k % 2)]]]

\* an integer hi * 65536 + lo with 0 <= lo < 65536, for the values a
\* 32-bit header field is packed from
Wide(x) == <<x \div 65536, x % 65536>>

\* w * k for a small k >= 0
wide_times(w, k) ==
    LET lo == w[2] * k IN <<w[1] * k + (lo \div 65536), lo % 65536>>

\* struct.pack("<L", w): ok = FALSE outside 0 .. 2^32 - 1 (struct.error)
pack_L(w) ==
    IF w[1] < 0 \/ w[1] > 65535 THEN [ok |-> FALSE, bytes |-> <<>>]
    ELSE [ok |-> TRUE,
          bytes |-> <<w[2] % 256, w[2] \div 256, w[1] % 256, w[1] \div 256>>]

\* struct.pack("<H", x)
pack_H(x) ==
    IF x < 0 \/ x > 65535 THEN [ok |-> FALSE, bytes |-> <<>>]
    ELSE [ok |-> TRUE, bytes |-> <<x % 256, x \div 256>>]

bits_per_sample_8 == 8

bits_per_sample == 16

\* "RIFF", "WAVE", "fmt ", "data"
RIFF_id == <<82, 73, 70, 70>>

WAVE_id == <<87, 65, 86, 69>>

fmt_id == <<102, 109, 116, 32>>

data_id == <<100, 97, 116, 97>>

\* wav_write(data, sample_rate, path): the bytes written to path, or
\* status "raised" when a header field cannot be packed
wav_write(d, rate) ==
    LET fields == <<pack_L(Wide(36 + Len(d))),
                    pack_L(Wide(16)),
                    pack_H(1),
                    pack_H(1),
                    pack_L(rate),
                    pack_L(wide_times(rate, bits_per_sample \div 8)),
                    pack_H(bits_per_sample \div 8),
                    pack_H(bits_per_sample),
                    pack_L(Wide(Len(d)))>>
    IN  IF \E k \in 1..Len(fields) : ~fields[k].ok
        THEN [status |-> "raised", bytes |-> <<>>]
        ELSE [status |-> "written",
              bytes |-> RIFF_id \o fields[1].bytes \o WAVE_id \o fmt_id
                        \o fields[2].bytes \o fields[3].bytes
                        \o fields[4].bytes \o fields[5].bytes
                        \o fields[6].bytes \o fields[7].bytes
                        \o fields[8].bytes \o data_id \o fields[9].bytes
                        \o d]

\* ------------------------------------------------------------------------
\* SpecUtil: one call of int_remap or wav_write, two of pcm_adjust

MaxSamples == 3       \* most samples in a buffer handed to pcm_adjust

\* the sample values tried: the ends of the 16-bit range and small ones
SampleValues == {-32768, -3, 0, 2, 32767}

\* the little-endian bytes of a sequence of samples
samples_bytes(val) ==
    [k \in 1..(2 * Len(val)) |-> pack_h(val[(k + 1) \div 2]).bytes[2 - (k % 2)]]

\* buffers of up to MaxSamples samples, and two of odd length
PCMBuffers ==
    {samples_bytes(val) :
        val \in UNION {[1..c -> SampleValues] : c \in 0..MaxSamples}}
    \cup {<<7>>, <<1, 2, 3>>}

\* the gains tried: 1, 16.0 and 0.5
Gains == {<<1, 1>>, <<16, 1>>, <<1, 2>>}

\* the sample rates tried: -1, -65536 + 16000, 0, 15625, 16000, 44100,
\* 2^31 - 1, 2^31, 2^32 - 1, 2^32
SampleRates ==
    {<<-1, 65535>>, <<-1, 16000>>, <<0, 0>>, <<0, 15625>>, <<0, 16000>>,
     <<0, 44100>>, <<32767, 65535>>, <<32768, 0>>, <<65535, 65535>>,
     <<65536, 0>>}

\* the buffers written: none, one and MaxSamples + 2 bytes of samples
WavData == {[k \in 1..c |-> (k * 37 + 11) % 256] : c \in {0, 1, MaxSamples + 2}}

\* the arguments of int_remap: n and the two ranges, plain, reversed and
\* degenerate
RemapRanges == {<<0, 127>>, <<127, 0>>, <<0, 99>>, <<3, 3>>, <<7, 7>>}

InitUtil ==
    /\ IdleTool /\ IdleVoice /\ IdleSysex /\ IdleCodec /\ IdleParse
    /\ IdleBatch /\ IdleEquiv
    /\ adjusted = <<>> /\ wavfile = NoResult /\ remapped = NoResult
    /\ \/ /\ pc = "pcm_adjust"
          /\ pcmdata \in PCMBuffers
          /\ gain \in Gains
          /\ fix_dc_offset \in BOOLEAN
          /\ sample_rate = <<0, 0>> /\ remap_args = <<>>
       \/ /\ pc = "wav_write"
          /\ pcmdata \in WavData
          /\ sample_rate \in SampleRates
          /\ gain = <<1, 1>> /\ fix_dc_offset = FALSE /\ remap_args = <<>>
       \/ /\ pc = "int_remap"
          /\ \E v \in {0, 3, 64, 127}, ra \in RemapRanges, rb \in RemapRanges :
                remap_args = <<v, ra, rb>>
          /\ pcmdata = <<>> /\ gain = <<1, 1>> /\ fix_dc_offset = FALSE
          /\ sample_rate = <<0, 0>>

\* out_pcm = pcm_adjust(pcm, gain, fix_dc_offset), applied to the buffer
\* the first time and to its own result the second time
PcmAdjust ==
    /\ pc = "pcm_adjust"
    /\ Len(adjusted) < 2
    /\ LET arg == IF adjusted = <<>> THEN pcmdata ELSE adjusted[1].pcm
           r   == pcm_adjust(arg, gain, fix_dc_offset)
       IN  /\ adjusted' = Append(adjusted, r)
           /\ pc' = IF r.ok THEN "pcm_adjust" ELSE "raised"
    /\ UNCHANGED <<pcmdata, gain, fix_dc_offset, sample_rate, wavfile,
                   remap_args, remapped, equivVars>>
    /\ UNCHANGED <<toolVars, voiceVars, sysexVars, codecVars, parseVars,
                   batchVars>>

\* wav_write(out_pcm, sample_rate, outpath)
WavWrite ==
    /\ pc = "wav_write"
    /\ wavfile' = wav_write(pcmdata, sample_rate)
    /\ pc' = wavfile'.status
    /\ UNCHANGED <<pcmdata, gain, fix_dc_offset, sample_rate, adjusted,
                   remap_args, remapped, equivVars>>
    /\ UNCHANGED <<toolVars, voiceVars, sysexVars, codecVars, parseVars,
                   batchVars>>

\* util.int_remap(n, r1, r2)
IntRemap ==
    /\ pc = "int_remap"
    /\ LET r == int_remap(remap_args[1], remap_args[2], remap_args[3])
       IN  /\ remapped' = [status |-> IF r.ok THEN "returned" ELSE "raised",
                           value |-> r.value]
           /\ pc' = remapped'.status
    /\ UNCHANGED <<pcmdata, gain, fix_dc_offset, sample_rate, adjusted,
                   wavfile, remap_args, equivVars>>
    /\ UNCHANGED <<toolVars, voiceVars, sysexVars, codecVars, parseVars,
                   batchVars>>

NextUtil == PcmAdjust \/ WavWrite \/ IntRemap

SpecUtil == InitUtil /\ [][NextUtil]_vars

\* ------------------------------------------------------------------------
\* Properties of the utilities (SpecUtil)

\* the call under C21: gain 1 with DC removal on a buffer of even length
DCRemovalCall ==
    /\ pc \in {"pcm_adjust", "raised"}
    /\ gain = <<1, 1>> /\ fix_dc_offset
    /\ Len(pcmdata) % 2 = 0

\* no sample leaves the 16-bit range when the bias is subtracted
Unclipped(pcm) ==
    LET val  == pcm_samples(pcm)
        mean == SumSeq(val) \div Len(val)
    IN  \A i \in 1..Len(val) : val[i] - mean \in -32768..32767

\* C21 as stated: for every even-length buffer, pcm_adjust with gain 1 and
\* DC removal applied twice gives the bytes it gives applied once.
C21_Idempotent ==
    (DCRemovalCall /\ Len(adjusted) = 2) => adjusted[2].pcm = adjusted[1].pcm

\* C21 amended: on a buffer of even length with at least one sample, if no
\* sample is clipped when the bias is subtracted, the second application
\* returns the bytes of the first; on the empty buffer the call raises and
\* returns nothing.
C21_IdempotentUnclipped ==
    (DCRemovalCall /\ Len(adjusted) >= 1) =>
        IF Len(pcmdata) = 0 THEN ~adjusted[1].ok /\ pc = "raised"
        ELSE /\ adjusted[1].ok
             /\ (Len(adjusted) = 2 /\ Unclipped(pcmdata)) =>
                    /\ adjusted[2].ok
                    /\ adjusted[2].pcm = adjusted[1].pcm

C21_Witness ==
    /\ DCRemovalCall /\ Len(adjusted) = 2
    /\ Len(pcmdata) = 2 * MaxSamples
    /\ Unclipped(pcmdata)
    /\ adjusted[1].pcm # pcmdata
    /\ adjusted[2].pcm = adjusted[1].pcm

\* C22: when both ranges of int_remap are a single point, it returns the
\* target's value and does not fail with a division by zero.
C22_DegenerateRanges ==
    (/\ remapped.status # "none"
     /\ remap_args[2][1] = remap_args[2][2]
     /\ remap_args[3][1] = remap_args[3][2]) =>
        /\ remapped.status = "returned"
        /\ remapped.value = remap_args[3][1]

\* the 32-bit little-endian field at 0-based offset k, as <<hi, lo>>
wide_at(bytes, k) ==
    <<bytes[k + 3] + 256 * bytes[k + 4], bytes[k + 1] + 256 * bytes[k + 2]>>

\* the file C24 describes for the buffer and rate of the call
StatedWav(bytes, d, rate) ==
    /\ Len(bytes) = 44 + Len(d)
    /\ SubSeq(bytes, 1, 4) = <<82, 73, 70, 70>>
    /\ wide_at(bytes, 4) = <<0, 36 + Len(d)>>
    /\ SubSeq(bytes, 9, 16) = <<87, 65, 86, 69, 102, 109, 116, 32>>
    /\ wide_at(bytes, 16) = <<0, 16>>
    /\ SubSeq(bytes, 21, 24) = <<1, 0, 1, 0>>
    /\ wide_at(bytes, 24) = rate
    /\ wide_at(bytes, 28) = <<2 * rate[1] + ((2 * rate[2]) \div 65536),
                              (2 * rate[2]) % 65536>>
    /\ SubSeq(bytes, 33, 36) = <<2, 0, 16, 0>>
    /\ SubSeq(bytes, 37, 40) = <<100, 97, 116, 97>>
    /\ wide_at(bytes, 40) = <<0, Len(d)>>
    /\ SubSeq(bytes, 45, Len(bytes)) = d

\* C24 as stated: for any buffer of n bytes and any sample rate r,
\* wav_write emits 44 + n bytes: the header with RIFF size 36 + n, format
\* tag 1, one channel, rate r, byte rate 2r, block align 2, 16 bits and
\* data size n, then the n bytes.
C24_WavLayout ==
    wavfile.status # "none" =>
        /\ wavfile.status = "written"
        /\ StatedWav(wavfile.bytes, pcmdata, sample_rate)

\* C24 amended: that file is emitted exactly when 0 <= r < 2^31; for any
\* other rate a header field cannot be packed, the call raises and nothing
\* is written.
C24_WavLayoutInRange ==
    wavfile.status # "none" =>
        IF sample_rate[1] \in 0..32767
        THEN /\ wavfile.status = "written"
             /\ StatedWav(wavfile.bytes, pcmdata, sample_rate)
        ELSE /\ wavfile.status = "raised"
             /\ wavfile.bytes = <<>>

C24_Witness ==
    /\ pc = "written"
    /\ sample_rate = <<0, 44100>>
    /\ Len(pcmdata) = MaxSamples + 2
    /\ Len(wavfile.bytes) = 44 + MaxSamples + 2
    /\ wide_at(wavfile.bytes, 28) = <<1, 22664>>

\* ------------------------------------------------------------------------
\* Properties of the record loop of PMD and of the table walk of
\* extract_p68 (SpecParse)

\* PMD(bytes) has gone through its record loop
PMDLoopRan ==
    /\ parser = "PMD" /\ pc # "call"
    /\ Len(indata) >= 26 /\ indata[2] = 26

\* the offset of the first record: offset-table entry 11, plus one
first_record == get_uint16(indata, 24, TRUE) + 1

\* record k (from 1) is the 26 bytes at first_record + 26 * (k - 1)
RecordsContiguous ==
    \A k \in 1..Len(parsed.voice_data) :
        /\ Len(parsed.voice_data[k]) = 26
        /\ first_record + 26 * k <= Len(indata)
        /\ parsed.voice_data[k] =
              SubSeq(indata, first_record + 26 * (k - 1) + 1, first_record + 26 * k)

\* fewer than 26 bytes remain at offset p
Exhausted(p) == p + 26 > Len(indata)

\* C26 as stated: the record loop terminates; every record is 26 bytes,
\* contiguous and in file order from (entry 11) + 1; the run ends at the
\* first position where fewer than 26 bytes remain or the byte is zero, so
\* no record starts at a zero byte.
C26_RecordRun ==
    PMDLoopRan =>
        /\ parsed.status = "returned"
        /\ RecordsContiguous
        /\ \A k \in 1..Len(parsed.voice_data) :
              indata[first_record + 26 * (k - 1) + 1] # 0
        /\ LET p == first_record + 26 * Len(parsed.voice_data)
           IN  Exhausted(p) \/ indata[p + 1] = 0

\* what the loop does: the zero byte ends the run only behind a record.
\* The first record is taken whenever 26 bytes remain at (entry 11) + 1,
\* also when that position holds the zero sentinel (the sentinel, the
\* 0xFF marker and 24 bytes of the text fields become a record); every
\* later record starts at a non-zero byte
RecordRunAfterFirst ==
    PMDLoopRan =>
        /\ parsed.status = "returned"
        /\ RecordsContiguous
        /\ \A k \in 2..Len(parsed.voice_data) :
              indata[first_record + 26 * (k - 1) + 1] # 0
        /\ LET n == Len(parsed.voice_data)
               p == first_record + 26 * n
           IN  IF n = 0 THEN Exhausted(first_record)
               ELSE Exhausted(p) \/ indata[p + 1] = 0

\* extract_p68 has gone through its table loop
P68WalkRan ==
    /\ parser = "extract_p68" /\ pc # "call"
    /\ Len(indata) >= 256 * 4 + 2

\* the indexes i >= 1 of the walk whose preceding entry is the file length
P68Stops ==
    {i \in 1..255 : get_uint32(indata, (i - 1) * 4, TRUE) = Len(indata)}

\* C27: the walk of extract_p68 stops at the first index i >= 1 whose
\* preceding table entry equals the file length, and the slot list has
\* i - 1 entries; if no entry equals the file length it has 256 entries.
C27_WalkStop ==
    P68WalkRan =>
        /\ parsed.status = "returned"
        /\ parsed.type = "P68"
        /\ Len(parsed.pcm_data) =
              IF P68Stops = {} THEN 256
              ELSE (CHOOSE i \in P68Stops : \A j \in P68Stops : i <= j) - 1

\* what holds of the walk: the stated length whenever a slot list is
\* returned
WalkStopWhenReturned ==
    (P68WalkRan /\ parsed.status = "returned" /\ parsed.type = "P68") =>
        Len(parsed.pcm_data) =
            IF P68Stops = {} THEN 256
            ELSE (CHOOSE i \in P68Stops : \A j \in P68Stops : i <= j) - 1

\* ------------------------------------------------------------------------
\* pdxtract.py: the ADPCM decoder, and the two tools on one generic archive

ADPCM_gain_shift_3 == 3

\* output = signal << 4
ADPCM_gain_shift == 4

\* ADPCM.decode of pdxtract.py, the body of the loop for one nibble; its
\* diff_lut, step_lut, step_min and step_max are those of OKI_ADPCM;
\* ok = FALSE if the table lookup raises
ADPCM_decode_nibble(sig, stp, sample) ==
    LET dv  == OKI_diff(stp * 16 + sample)
        s   == Max(-32768, Min(sig + dv.value, 32767))
        out == Max(-32768, Min(Shl(s, ADPCM_gain_shift), 32767))
    IN  [ok  |-> dv.ok,
         sig |-> s,
         stp |-> Max(OKI_step_min, Min(stp + OKI_step_lut[sample + 1], OKI_step_max)),
         pcm |-> pack_h(out).bytes]

RECURSIVE ADPCM_decode_range(_, _, _, _, _)
\* the loop over nibbles lo..hi of nb entered with signal sig and step stp
ADPCM_decode_range(nb, lo, hi, sig, stp) ==
    IF lo > hi THEN [ok |-> TRUE, sig |-> sig, stp |-> stp, pcm |-> <<>>]
    ELSE IF lo = hi THEN ADPCM_decode_nibble(sig, stp, nb[lo])
    ELSE LET mid == (lo + hi) \div 2
             a   == ADPCM_decode_range(nb, lo, mid, sig, stp)
             b   == ADPCM_decode_range(nb, mid + 1, hi, a.sig, a.stp)
         IN  IF ~a.ok THEN a
             ELSE [ok |-> b.ok, sig |-> b.sig, stp |-> b.stp,
                   pcm |-> a.pcm \o b.pcm]

\* ADPCM.decode(data): per byte the low nibble, then the high one;
\* ok = FALSE if the call raises
ADPCM_decode(d) ==
    LET nb == nibbles(d, FALSE)
        r  == ADPCM_decode_range(nb, 1, Len(nb), -2, 0)
    IN  [ok |-> r.ok, pcm |-> r.pcm]

\* what a tool hands to wav_write for one input file: for each slot,
\* whether a file is written and its sample bytes; status "raised" when
\* the tool does not get that far
Waves(w) == [status |-> "returned", waves |-> w]

NoWaves == [status |-> "raised", waves |-> <<>>]

\* main of pdxtract.py on the bytes of one file
pdxtract_main(d) ==
    LET pdx == pdxtract_PDX(d)
        dec == [i \in 1..Len(pdx.pcm_data) |->
                  IF pdx.pcm_data[i].present
                  THEN ADPCM_decode(pdx.pcm_data[i].pcm)
                  ELSE [ok |-> TRUE, pcm |-> <<>>]]
    IN  IF pdx.status # "returned" THEN NoWaves
        ELSE IF \E i \in 1..Len(dec) : ~dec[i].ok THEN NoWaves
        ELSE Waves([i \in 1..Len(dec) |->
                 [present |-> pdx.pcm_data[i].present, pcm |-> dec[i].pcm]])

\* main of pdx2wav.py on the bytes of one file, with --gain g[1] / g[2]
\* and --dcnorm given or not: gain = arguments.gain * 16.0
pdx2wav_main(d, g, dc_bias_norm) ==
    LET pdx == PDX(d)
        adj == [i \in 1..Len(pdx.pcm_data) |->
                  IF pdx.pcm_data[i].present
                  THEN pcm_adjust(pdx.pcm_data[i].pcm, <<g[1] * 16, g[2]>>,
                                  dc_bias_norm)
                  ELSE [ok |-> TRUE, pcm |-> <<>>]]
    IN  IF pdx.status # "returned" THEN NoWaves
        ELSE IF \E i \in 1..Len(adj) : ~adj[i].ok THEN NoWaves
        ELSE Waves([i \in 1..Len(adj) |->
                 [present |-> pdx.pcm_data[i].present, pcm |-> adj[i].pcm]])

\* a generic archive whose first slot is n bytes of the value b
LoudBuffer(b, n) ==
    put(zeros(768) \o [k \in 1..n |-> b], 0, u32be(768) \o u32be(n))

\* sample data that drives the signal to either end of the 16-bit range,
\* that stays near zero, and that alternates
LoudBytes == {119, 255, 8, 127, 247}

\* the archives both tools are run on
GenericBuffers ==
    PDXBuffers
    \cup {LoudBuffer(b, n) : b \in LoudBytes, n \in {2, 8, 24, MaxPayload}}

\* SpecGeneric: pdxtract and pdx2wav (default gain, no --dcnorm) run on
\* the same file, in either order
InitGeneric ==
    /\ IdleTool /\ IdleVoice /\ IdleSysex /\ IdleCodec /\ IdleBatch /\ IdleUtil
    /\ pc = "call"
    /\ parser = "none" /\ argtype = "None" /\ exttype = "None"
    /\ parsed = NoParsed
    /\ indata \in GenericBuffers
    /\ pdxtract_out = NoResult /\ pdx2wav_out = NoResult

RunPdxtract ==
    /\ pc = "call" /\ parser = "none"
    /\ pdxtract_out = NoResult
    /\ pdxtract_out' = pdxtract_main(indata)
    /\ UNCHANGED <<pc, pdx2wav_out>>
    /\ UNCHANGED <<toolVars, voiceVars, sysexVars, codecVars, parseVars,
                   batchVars, utilVars>>

RunPdx2wav ==
    /\ pc = "call" /\ parser = "none"
    /\ pdx2wav_out = NoResult
    /\ pdx2wav_out' = pdx2wav_main(indata, <<1, 1>>, FALSE)
    /\ UNCHANGED <<pc, pdxtract_out>>
    /\ UNCHANGED <<toolVars, voiceVars, sysexVars, codecVars, parseVars,
                   batchVars, utilVars>>

NextGeneric == RunPdxtract \/ RunPdx2wav

SpecGeneric == InitGeneric /\ [][NextGeneric]_vars

\* C30: on every generic archive, pdxtract (shift left by 4 and clamp) and
\* pdx2wav with default gain and without DC normalization (OKI decode,
\* then pcm_adjust with gain 16) mark the same slots present and give the
\* same 16-bit samples for each present slot; on a buffer too short for
\* the table neither gets to a slot.
C30_ToolsAgree ==
    (pdxtract_out # NoResult /\ pdx2wav_out # NoResult) =>
        /\ pdxtract_out.status = pdx2wav_out.status
        /\ Len(pdxtract_out.waves) = Len(pdx2wav_out.waves)
        /\ \A i \in 1..Len(pdxtract_out.waves) :
              /\ pdxtract_out.waves[i].present = pdx2wav_out.waves[i].present
              /\ pdxtract_out.waves[i].pcm = pdx2wav_out.waves[i].pcm

\* a slot of both tools whose samples reach the upper clamp after samples
\* that do not
C30_Witness ==
    /\ pdxtract_out # NoResult /\ pdx2wav_out # NoResult
    /\ pdxtract_out.status = "returned"
    /\ pdx2wav_out.waves[1].present
    /\ LET a == pdxtract_out.waves[1].pcm
           b == pdx2wav_out.waves[1].pcm
       IN  /\ Len(b) = 4 * MaxPayload
           /\ unpack_h(b[1], b[2]) \in 1..32766
           /\ unpack_h(b[Len(b) - 1], b[Len(b)]) = 32767
           /\ a = b

====
